---------------------------- MODULE Spec2Model ----------------------------
(***************************************************************************)
(* Result aggregation and metric derivation of the Stelvio scenario:       *)
(* scenarios/stelvio/analysis/analyze_results.py and                       *)
(* scenarios/stelvio/scripts/export_csv.py; the witness delay of           *)
(* scenarios/stelvio/witness_storyboard.py; and the control panel of       *)
(* scenarios/stelvio/scripts/simulation_gui.py.                            *)
(*                                                                         *)
(* Conventions.                                                            *)
(*  - A Python str is a sequence of fragments (pieces of text that the     *)
(*    program never looks inside).  startswith, str.contains and lower     *)
(*    are computed on these sequences.                                     *)
(*  - A float is the integer number of thousandths it denotes (1.0 is      *)
(*    1000, 0.002 is 2).  Quotients are kept as exact rationals            *)
(*    [num, den]; floating-point rounding is not modelled.                 *)
(*  - A pandas DataFrame is [cols, rows]: the set of column labels and     *)
(*    the sequence of rows.  Reading a column that is not in cols raises   *)
(*    KeyError.                                                            *)
(*  - A call that returns is [err |-> "none", val |-> v]; a call that      *)
(*    raises is [err |-> <exception name>, val |-> <<>>].                  *)
(***************************************************************************)
EXTENDS Integers, Sequences, FiniteSets, TLC

VARIABLES
    file,         \* SpecParse: the lines of the .sca file under test
    parsed,       \* SpecParse: the last SCAParser.parse() call and its result
    parser,       \* SpecParse: the SCAParser instance under test, its class and self.scalars
    df,           \* SpecMetrics: the DataFrame handed to MetricExtractor
    result,       \* SpecMetrics: the last MetricExtractor call and its result
    fs,           \* SpecLoad: RESULTS_DIR, directory name -> (file name -> lines)
    data,         \* SpecLoad: DataLoader.data
    aggregators,  \* SpecLoad: ExportManager.aggregators
    ret,          \* SpecLoad: the last load call, its glob order and its return value
    use_only_generated,  \* DataLoader.use_only_generated
    generated_configs,   \* DataLoader.generated_configs
    csv,          \* CSV_EXPORT_DIR, file name -> what was written to it
    call,         \* the last export or summary call, or whole run, and how it ended
    environ,      \* witness_storyboard: os.environ, the entry STELVIO_WITNESS_DELAY
    resolved,     \* witness_storyboard: the last _resolve_witness_delay() call and its result
    board,        \* witness_storyboard: the stories registered on the board
    workers,      \* simulation_gui: every MakeWorker created, with its make process
    self_worker,  \* simulation_gui: StelvioGUI.worker, an index of workers, 0 for None
    queue,        \* simulation_gui: the signals emitted by workers, not yet delivered
    enabled,      \* simulation_gui: isEnabled() of each push button of the central widget
    dialog,       \* simulation_gui: the modal message box that is open, or "none"
    status        \* simulation_gui: the message of the status bar

vars == <<file, parsed, parser, df, result, fs, data, aggregators, ret,
          use_only_generated, generated_configs, csv, call,
          environ, resolved, board,
          workers, self_worker, queue, enabled, dialog, status>>

parseVars   == <<file, parsed, parser>>
metricVars  == <<df, result>>
loaderVars  == <<use_only_generated, generated_configs>>
exportVars  == <<csv, call>>
loadVars    == <<fs, data, aggregators, ret, loaderVars, exportVars>>
storyVars   == <<environ, resolved, board>>
guiVars     == <<workers, self_worker, queue, enabled, dialog, status>>
scriptVars  == <<storyVars, guiVars>>

Ok(v)    == [err |-> "none", val |-> v]
Raise(e) == [err |-> e, val |-> <<>>]

-----------------------------------------------------------------------------
(* Bounds of the model.                                                    *)

MaxLines == 3      \* lines in a file under test
MaxRows  == 3      \* rows in a DataFrame under test
MaxFiles == 3      \* files in one result directory
NumVehicles == 2   \* num_vehicles of the generator under test (20 in the program)
MaxChars == 3      \* characters in the value of STELVIO_WITNESS_DELAY
MaxParses == 2     \* parse() calls on one SCAParser instance
MaxWorkers == 2    \* MakeWorker threads started in one session of the control panel
MaxOutput == 2     \* lines one make process writes

-----------------------------------------------------------------------------
(* Python strings.                                                         *)

\* str.lower() of one fragment
LowerFrag(f) ==
    CASE f = "DENM_"            -> "denm_"
      [] f = "RECEPTION_DELAY"  -> "reception_delay"
      [] OTHER                  -> f

Lower(s) == [i \in DOMAIN s |-> LowerFrag(s[i])]

\* s.startswith(p)
StartsWith(s, p) == Len(s) >= Len(p) /\ SubSeq(s, 1, Len(p)) = p

\* p in s
Contains(s, p) ==
    \E i \in 1..(Len(s) - Len(p) + 1) : SubSeq(s, i, i + Len(p) - 1) = p

\* Series.str.contains(p, case=False) on one element
ContainsNoCase(s, p) == Contains(Lower(s), Lower(p))

\* float(token): the tokens float() accepts, with their value in thousandths
FloatTable ==
    [t \in {<<"3.5">>, <<"1">>, <<"1.0">>, <<"0">>, <<"0.0">>, <<"-0.001">>, <<"0.002">>} |->
        CASE t = <<"3.5">>  -> 3500
          [] t = <<"1">>    -> 1000
          [] t = <<"1.0">>  -> 1000
          [] t = <<"0">>    -> 0
          [] t = <<"0.0">>  -> 0
          [] t = <<"-0.001">> -> -1
          [] t = <<"0.002">>  -> 2]

IsFloat(t) == t \in DOMAIN FloatTable

float(t) == IF IsFloat(t) THEN Ok(FloatTable[t]) ELSE Raise("ValueError")

-----------------------------------------------------------------------------
(* Rows and DataFrames.                                                    *)

NoStr == <<>>

\* one row; a field whose column is absent from the frame holds its default
Row(run, module, scalar, value) ==
    [run |-> run, module |-> module, scalar |-> scalar, value |-> value,
     repetition |-> 0, config |-> ""]

\* pd.DataFrame(list of dicts): an empty list gives a frame without columns
DataFrame(records, columns) ==
    IF records = <<>> THEN [cols |-> {}, rows |-> <<>>]
                      ELSE [cols |-> columns, rows |-> records]

EmptyFrame == DataFrame(<<>>, {})

-----------------------------------------------------------------------------
(* SCAParser.parse, both scripts.  A line is the sequence of its           *)
(* whitespace-separated tokens: exactly what strip() and split() leave.    *)
(* The stripped line starts with a keyword iff its first token does.       *)

LineStartsWith(line, kw) == Len(line) >= 1 /\ StartsWith(line[1], kw)

\* the loop body with a 4th token that is not a float taken as 0.0
ScalarsAfterLineNoTry(scalars, line) ==
    IF LineStartsWith(line, <<"scalar">>) /\ Len(line) >= 4
    THEN Append(scalars, Row(NoStr, line[2], line[3],
                             IF IsFloat(line[4]) THEN FloatTable[line[4]] ELSE 0))
    ELSE scalars

\* the body of the loop of analyze_results.SCAParser.parse for one line
ScalarsAfterLine(scalars, line) ==
    IF LineStartsWith(line, <<"scalar">>)
    THEN IF Len(line) >= 4
         THEN IF float(line[4]).err = "none"
              THEN Append(scalars, Row(NoStr, line[2], line[3], float(line[4]).val))
              ELSE scalars
         ELSE scalars
    ELSE scalars

RECURSIVE ScalarsAfter(_, _)
ScalarsAfter(scalars, lines) ==
    IF lines = <<>> THEN scalars
    ELSE ScalarsAfter(ScalarsAfterLine(scalars, Head(lines)), Tail(lines))

\* analyze_results.SCAParser(sca_file).parse() on a readable file
parse(lines) == DataFrame(ScalarsAfter(<<>>, lines), {"module", "scalar", "value"})

\* re.match(r'run\s+(.+)', line): the rest of the line after the keyword run
RunMatch(line) == Len(line) >= 2 /\ line[1] = <<"run">>

\* the body of the loop of export_csv.SCAParser.parse for one line;
\* st is [run, scalars]
ExportAfterLine(st, line) ==
    IF LineStartsWith(line, <<"run">>)
    THEN IF RunMatch(line) THEN [st EXCEPT !.run = Tail(line)] ELSE st
    ELSE IF LineStartsWith(line, <<"scalar">>)
    THEN IF Len(line) >= 4
         THEN IF float(line[4]).err = "none"
              THEN [st EXCEPT !.scalars =
                       Append(@, Row(st.run, line[2], line[3], float(line[4]).val))]
              ELSE st
         ELSE st
    ELSE st

RECURSIVE ExportAfter(_, _)
ExportAfter(st, lines) ==
    IF lines = <<>> THEN st
    ELSE ExportAfter(ExportAfterLine(st, Head(lines)), Tail(lines))

\* export_csv.SCAParser(sca_file).parse() on a readable file
export_parse(lines) ==
    DataFrame(ExportAfter([run |-> NoStr, scalars |-> <<>>], lines).scalars,
              {"run", "module", "scalar", "value"})

-----------------------------------------------------------------------------
(* Exact rationals; a zero denominator is NaN.                             *)

Rat(n, d) == [num |-> n, den |-> d]

NaN == Rat(0, 0)

IsNaN(a) == a.den = 0

RatEq(a, b)  == ~IsNaN(a) /\ ~IsNaN(b) /\ a.num * b.den = b.num * a.den

\* a + b
RatAdd(a, b) ==
    IF IsNaN(a) \/ IsNaN(b) THEN NaN ELSE Rat(a.num * b.den + b.num * a.den, a.den * b.den)

\* a * k, for an integer k
RatTimes(a, k) == IF IsNaN(a) THEN NaN ELSE Rat(a.num * k, a.den)

\* a / k, for a positive integer k
RatOver(a, k) == IF IsNaN(a) THEN NaN ELSE Rat(a.num, a.den * k)

\* round(a * scale) / scale, ties to the even neighbour; positive denominators
RatRound(a, scale) ==
    IF IsNaN(a) THEN NaN
    ELSE LET n == a.num * scale
             q == n \div a.den
             r == n % a.den
         IN  Rat(IF 2 * r > a.den \/ (2 * r = a.den /\ q % 2 = 1) THEN q + 1 ELSE q, scale)

\* a <= b, for positive denominators
RatLeq(a, b) == ~IsNaN(a) /\ ~IsNaN(b) /\ a.num * b.den <= b.num * a.den

RECURSIVE Sum(_)
Sum(s) == IF s = <<>> THEN 0 ELSE Head(s) + Sum(Tail(s))

-----------------------------------------------------------------------------
(* MetricExtractor.                                                        *)

InCoverageName   == <<"denm_", "in_coverage">>
ReceivedFlagName == <<"denm_", "received_flag">>

\* the rows df['scalar'].str.contains('denm_reception_delay', case=False) keeps
IsDelayRow(r) == ContainsNoCase(r.scalar, <<"denm_", "reception_delay">>)

IsCloudRow(r) == ContainsNoCase(r.scalar, <<"cloud_delivery_latency">>)

\* delays_ms[delays_ms >= 0]
NotNegative(s) == SelectSeq(s, LAMBDA x : x >= 0)

\* delays_ms[delays_ms > 0]
PositiveOnly(s) == SelectSeq(s, LAMBDA x : x > 0)

extract_reception_delays(d) ==
    IF ~({"scalar", "value"} \subseteq d.cols) THEN Raise("KeyError")
    ELSE LET delays    == SelectSeq(d.rows, IsDelayRow)
             delays_ms == [i \in DOMAIN delays |-> delays[i].value * 1000]
         IN  Ok(PositiveOnly(delays_ms))

\* extract_cloud_latencies with the zero filter of extract_reception_delays
extract_cloud_latencies_filtered(d) ==
    IF ~({"scalar", "value"} \subseteq d.cols) THEN Raise("KeyError")
    ELSE LET latencies == SelectSeq(d.rows, IsCloudRow)
         IN  Ok(PositiveOnly([i \in DOMAIN latencies |-> latencies[i].value * 1000]))

extract_cloud_latencies(d) ==
    IF ~({"scalar", "value"} \subseteq d.cols) THEN Raise("KeyError")
    ELSE LET latencies == SelectSeq(d.rows, IsCloudRow)
         IN  Ok([i \in DOMAIN latencies |-> latencies[i].value * 1000])

\* calculate_pdr dividing by all vehicles that report the coverage flag
calculate_pdr_all_vehicles(d) ==
    IF ~({"scalar", "value"} \subseteq d.cols) THEN Raise("KeyError")
    ELSE LET in_coverage == SelectSeq(d.rows, LAMBDA r : r.scalar = InCoverageName)
             received    == SelectSeq(d.rows, LAMBDA r : r.scalar = ReceivedFlagName)
             num_received == Sum([i \in DOMAIN received |-> received[i].value])
         IN  IF Len(in_coverage) = 0 THEN Ok(Rat(0, 1))
             ELSE Ok(Rat(num_received, Len(in_coverage) * 10))

\* the value is in percent: (num_received / num_in_coverage) * 100, where
\* num_received is a sum of floats held in thousandths: s/1000/n*100 = s/(10n)
calculate_pdr(d) ==
    IF ~({"scalar", "value"} \subseteq d.cols) THEN Raise("KeyError")
    ELSE LET in_coverage == SelectSeq(d.rows, LAMBDA r : r.scalar = InCoverageName)
             vehicles_in_coverage == SelectSeq(in_coverage, LAMBDA r : r.value = 1000)
             num_in_coverage == Len(vehicles_in_coverage)
             received    == SelectSeq(d.rows, LAMBDA r : r.scalar = ReceivedFlagName)
             num_received == Sum([i \in DOMAIN received |-> received[i].value])
         IN  IF num_in_coverage = 0 THEN Ok(Rat(0, 1))
             ELSE Ok(Rat(num_received, num_in_coverage * 10))

calculate_coverage(d) ==
    IF ~({"scalar", "value"} \subseteq d.cols) THEN Raise("KeyError")
    ELSE LET in_coverage == SelectSeq(d.rows, LAMBDA r : r.scalar = InCoverageName)
             total_vehicles == Len(in_coverage)
         IN  IF total_vehicles = 0 THEN Ok(Rat(0, 1))
             ELSE Ok(Rat(Sum([i \in DOMAIN in_coverage |-> in_coverage[i].value]),
                         total_vehicles * 10))

-----------------------------------------------------------------------------
(* MetricExtractor.get_summary_stats.  The statistics of a series are      *)
(* exact rationals in the unit of the series; std is held as its square    *)
(* (the sample variance, NaN for a single value), since the root of a      *)
(* rational need not be rational.                                          *)

RECURSIVE Insert(_, _)
Insert(x, s) ==
    IF s = <<>> THEN <<x>>
    ELSE IF x <= Head(s) THEN <<x>> \o s
    ELSE <<Head(s)>> \o Insert(x, Tail(s))

RECURSIVE SortedValues(_)
SortedValues(s) == IF s = <<>> THEN <<>> ELSE Insert(Head(s), SortedValues(Tail(s)))

Mean(s) == Rat(Sum(s), Len(s))

Median(s) ==
    LET o == SortedValues(s)
        n == Len(s)
    IN  IF n % 2 = 1 THEN Rat(o[(n + 1) \div 2], 1)
        ELSE Rat(o[n \div 2] + o[n \div 2 + 1], 2)

\* Series.std(): ddof = 1; squared.  n*sum(x^2) - sum(x)^2 over n*(n-1)
StdSquared(s) ==
    LET n == Len(s)
    IN  IF n = 1 THEN NaN
        ELSE Rat(n * Sum([i \in DOMAIN s |-> s[i] * s[i]]) - Sum(s) * Sum(s), n * (n - 1))

\* Series.quantile(q/100), linear interpolation between the two neighbours
Quantile(s, q) ==
    LET o  == SortedValues(s)
        n  == Len(s)
        lo == (q * (n - 1)) \div 100
        fr == (q * (n - 1)) % 100
    IN  IF lo + 2 > n THEN Rat(o[n], 1)
        ELSE Rat(100 * o[lo + 1] + (o[lo + 2] - o[lo + 1]) * fr, 100)

ZeroStats ==
    [mean |-> Rat(0, 1), median |-> Rat(0, 1), std |-> Rat(0, 1),
     min |-> Rat(0, 1), max |-> Rat(0, 1), p95 |-> Rat(0, 1), count |-> 0]

\* what pandas computes on an empty series
NaNStats ==
    [mean |-> NaN, median |-> NaN, std |-> NaN,
     min |-> NaN, max |-> NaN, p95 |-> NaN, count |-> 0]

SeriesStats(values) ==
    [mean   |-> Mean(values),
     median |-> Median(values),
     std    |-> StdSquared(values),
     min    |-> Rat(SortedValues(values)[1], 1),
     max    |-> Rat(SortedValues(values)[Len(values)], 1),
     p95    |-> Quantile(values, 95),
     count  |-> Len(values)]

\* get_summary_stats without the test of values.empty
get_summary_stats_unguarded(values) ==
    IF values = <<>> THEN NaNStats ELSE SeriesStats(values)

get_summary_stats(values) ==
    IF values = <<>> THEN ZeroStats ELSE SeriesStats(values)

-----------------------------------------------------------------------------
(* Inputs of the parser: the lines a result file may hold.                 *)

Tok(t) == <<t>>

Lines ==
    { <<Tok("scalar"), Tok("A"), Tok("B"), Tok("3.5")>>,
      <<Tok("scalar"), Tok("X"), Tok("Y"), Tok("1")>>,
      <<Tok("scalar"), Tok("X"), Tok("Y"), Tok("notanumber")>>,
      <<Tok("scalar"), Tok("A"), Tok("B")>>,
      <<Tok("scalar"), Tok("A"), Tok("B"), Tok("0.0"), Tok("extra")>>,
      <<<<"scalar", "s">>, Tok("A"), Tok("B"), Tok("0.002")>>,
      <<Tok("run"), Tok("General-0")>>,
      <<Tok("attr"), Tok("A"), Tok("B"), Tok("1.0")>>,
      <<>> }

SeqsUpTo(S, n) == UNION { [1..k -> S] : k \in 0..n }

Files == SeqsUpTo(Lines, MaxLines)

NoCall == [op |-> "none", arg |-> <<>>, out |-> Ok(0)]

\* no SCAParser has been constructed
NoParser == [class |-> "none", scalars |-> <<>>, calls |-> 0]

InitParse ==
    /\ file \in Files
    /\ parsed = NoCall
    /\ parser = NoParser

\* analyze_results: SCAParser(sca_file).parse(), the first call on a new
\* instance, whose self.scalars is []
SCAParser_parse ==
    /\ parsed' = [op |-> "parse", arg |-> file, out |-> Ok(parse(file))]
    /\ parser' = [class |-> "analyze_results.SCAParser",
                  scalars |-> ScalarsAfter(<<>>, file), calls |-> 1]
    /\ UNCHANGED <<file, metricVars, loadVars, scriptVars>>

\* export_csv: SCAParser(sca_file).parse(), the first call on a new instance
Export_SCAParser_parse ==
    /\ parsed' = [op |-> "export_parse", arg |-> file, out |-> Ok(export_parse(file))]
    /\ parser' = [class |-> "export_csv.SCAParser",
                  scalars |-> ExportAfter([run |-> NoStr, scalars |-> <<>>], file).scalars,
                  calls |-> 1]
    /\ UNCHANGED <<file, metricVars, loadVars, scriptVars>>

\* analyze_results: parser.parse() once more on the instance under test;
\* the loop appends to the self.scalars the earlier calls have left
SCAParser_parse_again ==
    /\ parser.class = "analyze_results.SCAParser"
    /\ parser.calls < MaxParses
    /\ LET scalars == ScalarsAfter(parser.scalars, file)
       IN  /\ parsed' = [op |-> "parse_again", arg |-> file,
                         out |-> Ok(DataFrame(scalars, {"module", "scalar", "value"}))]
           /\ parser' = [parser EXCEPT !.scalars = scalars, !.calls = @ + 1]
    /\ UNCHANGED <<file, metricVars, loadVars, scriptVars>>

\* export_csv: parser.parse() once more on the instance under test
Export_SCAParser_parse_again ==
    /\ parser.class = "export_csv.SCAParser"
    /\ parser.calls < MaxParses
    /\ LET scalars == ExportAfter([run |-> NoStr, scalars |-> parser.scalars], file).scalars
       IN  /\ parsed' = [op |-> "export_parse_again", arg |-> file,
                         out |-> Ok(DataFrame(scalars, {"run", "module", "scalar", "value"}))]
           /\ parser' = [parser EXCEPT !.scalars = scalars, !.calls = @ + 1]
    /\ UNCHANGED <<file, metricVars, loadVars, scriptVars>>

-----------------------------------------------------------------------------
(* Inputs of the metric extractors: the combined DataFrame of one          *)
(* configuration.                                                          *)

Vehicle(i) == <<"Stelvio.", "node[", i, "].middleware.VehicleReceiverService">>
Antenna    == <<"Stelvio.", "antenna", ".middleware.InfrastructureService">>

LoadedColumns == {"module", "scalar", "value", "repetition", "config"}

LoadedRow(module, scalar, value) ==
    [Row(NoStr, module, scalar, value) EXCEPT !.repetition = 1,
                                              !.config = "Crashed_Terrestrial"]

MetricRows ==
    { LoadedRow(Vehicle(i), n, v) :
        i \in {"0", "1"}, n \in {InCoverageName, ReceivedFlagName}, v \in {0, 1000} }
    \cup { LoadedRow(Vehicle("0"), <<"denm_", "reception_delay">>, v) : v \in {2, 0, -1} }
    \cup { LoadedRow(Vehicle("0"), <<"DENM_", "RECEPTION_DELAY">>, 2),
           LoadedRow(Vehicle("0"), <<"reception_delay">>, 2) }
    \cup { LoadedRow(Antenna, <<"cloud_delivery_latency">>, v) : v \in {3, 0, -1} }

\* the dataset of the coverage-conditioning scenario: 20 vehicles report the
\* coverage flag, 12 of them in coverage, and exactly these 12 receive
CoverageScenario ==
    [cols |-> LoadedColumns,
     rows |-> [k \in 1..32 |->
                 IF k <= 20
                 THEN LoadedRow(Vehicle(ToString(k)), InCoverageName,
                                IF k <= 12 THEN 1000 ELSE 0)
                 ELSE LoadedRow(Vehicle(ToString(k - 20)), ReceivedFlagName, 1000)]]

\* every repetition file held no record: only the tag columns exist
NoRecordsFrame == [cols |-> {"repetition", "config"}, rows |-> <<>>]

Frames ==
    { [cols |-> LoadedColumns, rows |-> r] : r \in SeqsUpTo(MetricRows, MaxRows) \ {<<>>} }
    \cup {EmptyFrame, NoRecordsFrame, CoverageScenario}

InitMetrics ==
    /\ df \in Frames
    /\ result = NoCall

Called(op, arg, out) == [op |-> op, arg |-> arg, out |-> out]

MetricExtractor_calculate_pdr ==
    /\ result' = Called("calculate_pdr", <<>>, calculate_pdr(df))
    /\ UNCHANGED <<df, parseVars, loadVars, scriptVars>>

MetricExtractor_calculate_coverage ==
    /\ result' = Called("calculate_coverage", <<>>, calculate_coverage(df))
    /\ UNCHANGED <<df, parseVars, loadVars, scriptVars>>

MetricExtractor_extract_reception_delays ==
    /\ result' = Called("extract_reception_delays", <<>>, extract_reception_delays(df))
    /\ UNCHANGED <<df, parseVars, loadVars, scriptVars>>

MetricExtractor_extract_cloud_latencies ==
    /\ result' = Called("extract_cloud_latencies", <<>>, extract_cloud_latencies(df))
    /\ UNCHANGED <<df, parseVars, loadVars, scriptVars>>

\* generate_summary_table: get_summary_stats(extract_reception_delays(df))
MetricExtractor_get_summary_stats_delays ==
    /\ extract_reception_delays(df).err = "none"
    /\ result' = Called("get_summary_stats", extract_reception_delays(df).val,
                        Ok(get_summary_stats(extract_reception_delays(df).val)))
    /\ UNCHANGED <<df, parseVars, loadVars, scriptVars>>

\* generate_summary_table: get_summary_stats(extract_cloud_latencies(df))
MetricExtractor_get_summary_stats_cloud ==
    /\ extract_cloud_latencies(df).err = "none"
    /\ result' = Called("get_summary_stats", extract_cloud_latencies(df).val,
                        Ok(get_summary_stats(extract_cloud_latencies(df).val)))
    /\ UNCHANGED <<df, parseVars, loadVars, scriptVars>>

-----------------------------------------------------------------------------
(* The result directories.  A file name is the sequence of the code points *)
(* of its characters; fs maps a directory name to "absent" or to the       *)
(* directory's files (file name -> lines).                                 *)

DotSca == <<46, 115, 99, 97>>     \* ".sca"
DotVec == <<46, 118, 101, 99>>    \* ".vec"

FileNames ==
    { <<97>> \o DotSca,             \* a.sca
      <<98>> \o DotSca,             \* b.sca
      <<97, 45, 49>> \o DotSca,     \* a-1.sca
      <<98>> \o DotVec }            \* b.vec

EndsWith(s, p) == Len(s) >= Len(p) /\ SubSeq(s, Len(s) - Len(p) + 1, Len(s)) = p

\* str < str: at the first index where they differ, or the shorter first
LexLess(a, b) ==
    \E i \in 1..Len(b) :
        /\ \A j \in 1..(i - 1) : j <= Len(a) /\ a[j] = b[j]
        /\ (i > Len(a) \/ (i <= Len(a) /\ a[i] < b[i]))

\* sorted() that returns its argument as it is
Unsorted(names) == names

RECURSIVE sorted(_)
sorted(names) ==
    IF names = <<>> THEN <<>>
    ELSE LET rest == sorted(Tail(names))
             x    == Head(names)
             lows == SelectSeq(rest, LAMBDA y : LexLess(y, x))
             high == SelectSeq(rest, LAMBDA y : ~LexLess(y, x))
         IN  lows \o <<x>> \o high

ALL_CONFIGS ==
    {"Crashed_Terrestrial", "Crashed_Satellite", "Crashed_Hybrid",
     "Witness_Terrestrial", "Witness_Satellite", "Witness_Hybrid"}

\* config_name.lower()
lower(c) ==
    CASE c = "Crashed_Terrestrial" -> "crashed_terrestrial"
      [] c = "Crashed_Satellite"   -> "crashed_satellite"
      [] c = "Crashed_Hybrid"      -> "crashed_hybrid"
      [] c = "Witness_Terrestrial" -> "witness_terrestrial"
      [] c = "Witness_Satellite"   -> "witness_satellite"
      [] c = "Witness_Hybrid"      -> "witness_hybrid"

\* a directory: whether it exists, its files (name -> lines) and the names
\* of the files that open() cannot read
Absent == [exists |-> FALSE, files |-> <<>>, denied |-> {}]

Directory(files) == [exists |-> TRUE, files |-> files, denied |-> {}]

DirectoryDenying(files, denied) == [exists |-> TRUE, files |-> files, denied |-> denied]

\* config_dir.exists()
DirExists(c) == lower(c) \in DOMAIN fs /\ fs[lower(c)].exists

\* the set config_dir.glob("*.sca") enumerates
GlobSca(c) ==
    IF DirExists(c) THEN {n \in DOMAIN fs[lower(c)].files : EndsWith(n, DotSca)} ELSE {}

\* the orders in which the file system may enumerate a set of names
Enumerations(S) ==
    {o \in [1..Cardinality(S) -> S] : \A i, j \in DOMAIN o : i # j => o[i] # o[j]}

-----------------------------------------------------------------------------
(* VisualizationDataGenerator.  The random draws are choices: which        *)
(* vehicles are in coverage, which of them receive, and the delays.        *)

ConfigType(c) ==
    IF c \in {"Crashed_Terrestrial", "Crashed_Satellite", "Crashed_Hybrid"}
    THEN "Crashed" ELSE "Witness"

ConfigInfra(c) ==
    CASE c \in {"Crashed_Terrestrial", "Witness_Terrestrial"} -> "Terrestrial"
      [] c \in {"Crashed_Satellite", "Witness_Satellite"}     -> "Satellite"
      [] OTHER                                                -> "Hybrid"

Satellite == <<"Stelvio.", "satellite", ".middleware.InfrastructureService">>

witness_delay_ms(c) == IF ConfigType(c) = "Witness" THEN 3000 ELSE 0

\* delay_ms of a vehicle that receives: two of the values the draw can give
GeneratedDelays(c) ==
    LET floor == IF ConfigInfra(c) = "Hybrid" THEN 50 ELSE 10
    IN  {witness_delay_ms(c) + floor, witness_delay_ms(c) + floor + 2}

\* cloud_lat_ms: the two ends of the interval np.clip leaves
GeneratedCloudLatencies(c) ==
    CASE ConfigInfra(c) = "Terrestrial" -> {witness_delay_ms(c) + 40, witness_delay_ms(c) + 80}
      [] ConfigInfra(c) = "Hybrid"      -> {witness_delay_ms(c) + 100, witness_delay_ms(c) + 140}
      [] OTHER                          -> {witness_delay_ms(c) + 240, witness_delay_ms(c) + 300}

\* int(num_vehicles * pdr), over the interval pdr is drawn from
GeneratedRelayed(c, num_vehicles) ==
    CASE ConfigInfra(c) = "Terrestrial" ->
           ((92 * num_vehicles) \div 100)..((97 * num_vehicles) \div 100)
      [] ConfigInfra(c) = "Satellite" ->
           ((75 * num_vehicles) \div 100)..((85 * num_vehicles) \div 100)
      [] OTHER -> {(99 * num_vehicles) \div 100}

GeneratedRow(c, module, scalar, value) ==
    [Row(NoStr, module, scalar, value) EXCEPT !.repetition = 1, !.config = c]

\* the draws of one vehicle with reception decided without regard to coverage
VehicleDrawsAnyReception(c) ==
    {[in_coverage |-> i, receives |-> FALSE, delay_ms |-> 0] : i \in BOOLEAN}
    \cup {[in_coverage |-> i, receives |-> TRUE, delay_ms |-> d] :
             i \in BOOLEAN, d \in GeneratedDelays(c)}

\* what one vehicle may draw: out of coverage, in coverage without
\* reception, in coverage with reception after delay_ms
VehicleDraws(c) ==
    {[in_coverage |-> FALSE, receives |-> FALSE, delay_ms |-> 0],
     [in_coverage |-> TRUE,  receives |-> FALSE, delay_ms |-> 0]}
    \cup {[in_coverage |-> TRUE, receives |-> TRUE, delay_ms |-> d] : d \in GeneratedDelays(c)}

\* the draws of all vehicles.  Hybrid: coverage is 1.0, so every vehicle is
\* in coverage, and exactly the vehicle lost_vehicle_id does not receive
GeneratedDraws(c, num_vehicles) ==
    {w \in [0..(num_vehicles - 1) -> VehicleDraws(c)] :
        ConfigInfra(c) = "Hybrid" =>
            /\ \A v \in DOMAIN w : w[v].in_coverage
            /\ Cardinality({v \in DOMAIN w : ~w[v].receives}) = 1}

\* the four records data.extend() adds for vehicle_id
VehicleRecords(c, vehicle_id, w) ==
    LET module == <<"Stelvio.", "node[", ToString(vehicle_id),
                    "].middleware.VehicleReceiverService">>
    IN  << GeneratedRow(c, module, <<"denm_", "received_flag">>,
                        IF w.receives THEN 1000 ELSE 0),
           GeneratedRow(c, module, <<"denm_", "reception_delay">>, w.delay_ms),
           GeneratedRow(c, module, <<"denm_", "in_coverage">>,
                        IF w.in_coverage THEN 1000 ELSE 0),
           GeneratedRow(c, module, <<"denm_", "out_of_coverage">>,
                        IF w.in_coverage THEN 0 ELSE 1000) >>

RECURSIVE AllVehicleRecords(_, _, _)
AllVehicleRecords(c, w, vehicle_id) ==
    IF vehicle_id \notin DOMAIN w THEN <<>>
    ELSE VehicleRecords(c, vehicle_id, w[vehicle_id]) \o AllVehicleRecords(c, w, vehicle_id + 1)

\* the frames VisualizationDataGenerator.generate_for_config may return
generate_for_config(c, num_vehicles) ==
    { [cols |-> {"module", "scalar", "value", "config", "repetition"},
       rows |-> AllVehicleRecords(c, w, 0)
                \o << GeneratedRow(c, IF ConfigInfra(c) = "Terrestrial" THEN Antenna ELSE Satellite,
                                   <<"cloud_delivery_latency">>, cloud_lat_ms),
                      GeneratedRow(c, IF ConfigInfra(c) = "Terrestrial" THEN Antenna ELSE Satellite,
                                   <<"denms_relayed">>, relayed * 1000) >>] :
      w \in GeneratedDraws(c, num_vehicles),
      cloud_lat_ms \in GeneratedCloudLatencies(c),
      relayed \in GeneratedRelayed(c, num_vehicles) }

-----------------------------------------------------------------------------
(* DataLoader and ExportManager.                                           *)

\* df[column] = value
Tagged(d, column, value) ==
    [cols |-> d.cols \cup {column},
     rows |-> [i \in DOMAIN d.rows |-> [d.rows[i] EXCEPT ![column] = value]]]

\* the rows of the frames, the last frame first
RECURSIVE ConcatRowsLastFirst(_)
ConcatRowsLastFirst(dfs) ==
    IF dfs = <<>> THEN <<>> ELSE ConcatRowsLastFirst(Tail(dfs)) \o Head(dfs).rows

\* the rows of the frames, one frame after the other
RECURSIVE ConcatRows(_)
ConcatRows(dfs) == IF dfs = <<>> THEN <<>> ELSE Head(dfs).rows \o ConcatRows(Tail(dfs))

\* pd.concat(dfs, ignore_index=True)
concat(dfs) ==
    [cols |-> UNION {dfs[i].cols : i \in DOMAIN dfs}, rows |-> ConcatRows(dfs)]

\* the frames of DataLoader.load_configuration's loop over sca_files
LoadedFrames(c, sca_files) ==
    [idx \in DOMAIN sca_files |->
        Tagged(Tagged(parse(fs[lower(c)].files[sca_files[idx]]), "repetition", idx),
               "config", c)]

\* {}
EmptyDict == [k \in {} |-> <<>>]

\* dict = {key: value}
PutAlone(dict, key, value) == [k \in {key} |-> value]

\* dict[key] = value
Put(dict, key, value) ==
    [k \in DOMAIN dict \cup {key} |-> IF k = key THEN value ELSE dict[k]]

\* the index of the first file of sca_files that open() cannot read, or 0
FirstDenied(c, sca_files) ==
    LET denied == {idx \in DOMAIN sca_files : sca_files[idx] \in fs[lower(c)].denied}
    IN  IF denied = {} THEN 0 ELSE CHOOSE idx \in denied : \A j \in denied : idx <= j

\* DataLoader.load_configuration(config_name).  self.data[config_name] is
\* set to [] before the loop, so a parse that raises leaves the frames
\* appended so far.  ret.value is the returned value of a call that returns.
load_configuration(c) ==
    /\ IF use_only_generated
       THEN \E gen_df \in generate_for_config(c, NumVehicles) :
              /\ data' = Put(data, c, <<gen_df>>)
              /\ generated_configs' = Append(generated_configs, c)
              /\ ret' = [op |-> "load_configuration", config |-> c,
                         glob |-> <<>>, value |-> 1, err |-> "none"]
       ELSE /\ generated_configs' = generated_configs
            /\ IF DirExists(c) /\ GlobSca(c) # {}
               THEN \E glob \in Enumerations(GlobSca(c)) :
                      LET sca_files == sorted(glob)
                          failed    == FirstDenied(c, sca_files)
                      IN  IF failed = 0
                          THEN /\ data' = Put(data, c, LoadedFrames(c, sca_files))
                               /\ ret' = [op |-> "load_configuration", config |-> c,
                                          glob |-> glob, value |-> Len(sca_files),
                                          err |-> "none"]
                          ELSE /\ data' = Put(data, c,
                                              LoadedFrames(c, SubSeq(sca_files, 1, failed - 1)))
                               /\ ret' = [op |-> "load_configuration", config |-> c,
                                          glob |-> glob, value |-> 0, err |-> "OSError"]
               ELSE /\ data' = data
                    /\ ret' = [op |-> "load_configuration", config |-> c,
                               glob |-> <<>>, value |-> 0, err |-> "none"]
    /\ UNCHANGED <<fs, aggregators, use_only_generated, exportVars, parseVars, metricVars, scriptVars>>

\* DataLoader.get_combined_data(config_name), for a loader whose data is d
CombinedData(d, c) ==
    IF c \notin DOMAIN d \/ d[c] = <<>> THEN EmptyFrame ELSE concat(d[c])

\* DataLoader.get_combined_data(config_name)
get_combined_data(c) == CombinedData(data, c)

\* ResultAggregator(config_name)
ResultAggregator(c) == [config_name |-> c, repetitions |-> <<>>, raw_data |-> <<>>]

\* ResultAggregator.add_repetition(rep_num, df)
add_repetition(agg, rep_num, d) ==
    [agg EXCEPT !.repetitions = Append(@, rep_num),
                !.raw_data    = Append(@, Tagged(d, "repetition", rep_num))]

\* the aggregator after ExportManager.scan_results's loop over sca_files[idx..]
RECURSIVE ScanLoop(_, _, _, _)
ScanLoop(agg, c, sca_files, idx) ==
    IF idx > Len(sca_files) THEN agg
    ELSE ScanLoop(add_repetition(agg, idx,
                                 export_parse(fs[lower(c)].files[sca_files[idx]])),
                  c, sca_files, idx + 1)

\* scan_results without the return on a directory that holds no .sca file
ScannedWithoutFiles(aggs, c, glob) ==
    LET sca_files == sorted(glob)
    IN  IF ~DirExists(c)
        THEN [aggregators |-> aggs, value |-> 0, err |-> "none"]
        ELSE IF FirstDenied(c, sca_files) # 0
        THEN [aggregators |-> aggs, value |-> 0, err |-> "OSError"]
        ELSE [aggregators |-> Put(aggs, c, ScanLoop(ResultAggregator(c), c, sca_files, 1)),
              value |-> Len(sca_files), err |-> "none"]

\* ExportManager.scan_results(config_name) on the aggregators aggs, the
\* directory being enumerated in the order glob: the aggregators it leaves,
\* the value it returns and the exception it raises.  The aggregator is
\* stored after the loop, so a parse that raises stores nothing.
Scanned(aggs, c, glob) ==
    LET sca_files == sorted(glob)
    IN  IF ~DirExists(c) \/ sca_files = <<>>
        THEN [aggregators |-> aggs, value |-> 0, err |-> "none"]
        ELSE IF FirstDenied(c, sca_files) # 0
        THEN [aggregators |-> aggs, value |-> 0, err |-> "OSError"]
        ELSE [aggregators |-> Put(aggs, c, ScanLoop(ResultAggregator(c), c, sca_files, 1)),
              value |-> Len(sca_files), err |-> "none"]

\* ExportManager.scan_results(config_name)
scan_results(c) ==
    /\ \E glob \in Enumerations(GlobSca(c)) :
          LET out == Scanned(aggregators, c, glob)
          IN  /\ aggregators' = out.aggregators
              /\ ret' = [op |-> "scan_results", config |-> c, glob |-> glob,
                         value |-> out.value, err |-> out.err]
    /\ UNCHANGED <<fs, data, loaderVars, exportVars, parseVars, metricVars, scriptVars>>

\* ResultAggregator.get_raw_dataframe()
get_raw_dataframe(agg) ==
    IF agg.raw_data = <<>> THEN EmptyFrame ELSE concat(agg.raw_data)

-----------------------------------------------------------------------------
(* The CSV export directory.  A file is what was written to it: the table, *)
(* and the configurations whose rows came from the data generator          *)
(* (DataLoader.generated_configs).  Floats are thousandths, percentages    *)
(* are kept in percent.                                                    *)

Written(table, generated) == [table |-> table, generated |-> generated]

\* DataFrame.empty
IsEmpty(d) == d.rows = <<>> \/ d.cols = {}

\* the values of the list s, each once, in the order of first appearance
RECURSIVE Unique(_)
Unique(s) ==
    IF s = <<>> THEN <<>>
    ELSE LET u == Unique(SubSeq(s, 1, Len(s) - 1))
             x == s[Len(s)]
         IN  IF \E i \in DOMAIN u : u[i] = x THEN u ELSE Append(u, x)

RECURSIVE RatSum(_)
RatSum(s) == IF s = <<>> THEN Rat(0, 1) ELSE RatAdd(Head(s), RatSum(Tail(s)))

\* Series.mean() of a column of quotients
MeanOfRats(s) == RatOver(RatSum(s), Len(s))

\* ResultAggregator.get_aggregated_stats().  pandas orders the groups by
\* their key; they are kept here in the order of first appearance, on which
\* no statistic of a column depends.
get_aggregated_stats(agg) ==
    IF agg.raw_data = <<>> THEN Ok(EmptyFrame)
    ELSE LET combined == get_raw_dataframe(agg)
             keys == Unique([i \in DOMAIN combined.rows |->
                                <<combined.rows[i].module, combined.rows[i].scalar>>])
             Values(k) ==
                 LET group == SelectSeq(combined.rows, LAMBDA r : <<r.module, r.scalar>> = k)
                 IN  [i \in DOMAIN group |-> group[i].value]
         IN  IF ~({"module", "scalar", "value"} \subseteq combined.cols)
             THEN Raise("KeyError")
             ELSE Ok([cols |-> {"module", "scalar", "mean", "median", "std", "min", "max",
                                "count", "config", "repetitions"},
                      rows |-> [i \in DOMAIN keys |->
                                   [module |-> keys[i][1],
                                    scalar |-> keys[i][2],
                                    mean   |-> Mean(Values(keys[i])),
                                    median |-> Median(Values(keys[i])),
                                    std    |-> StdSquared(Values(keys[i])),
                                    min    |-> SortedValues(Values(keys[i]))[1],
                                    max    |-> SortedValues(Values(keys[i]))[Len(Values(keys[i]))],
                                    count  |-> Len(Values(keys[i])),
                                    config |-> agg.config_name,
                                    repetitions |-> Len(agg.repetitions)]]])

\* ResultAggregator.get_vehicle_metrics()
get_vehicle_metrics(agg) ==
    IF agg.raw_data = <<>> THEN Ok(EmptyFrame)
    ELSE LET combined == get_raw_dataframe(agg)
         IN  IF "module" \notin combined.cols THEN Raise("KeyError")
             ELSE Ok([cols |-> combined.cols,
                      rows |-> SelectSeq(combined.rows,
                                         LAMBDA r : Contains(r.module, <<"node[">>))])

\* ResultAggregator.get_infrastructure_metrics()
get_infrastructure_metrics(agg) ==
    IF agg.raw_data = <<>> THEN Ok(EmptyFrame)
    ELSE LET combined == get_raw_dataframe(agg)
         IN  IF "module" \notin combined.cols THEN Raise("KeyError")
             ELSE Ok([cols |-> combined.cols,
                      rows |-> SelectSeq(combined.rows,
                                         LAMBDA r : \/ ContainsNoCase(r.module, <<"antenna">>)
                                                    \/ ContainsNoCase(r.module, <<"satellite">>))])

\* ExportManager.export_configuration(config_name) on the directory files:
\* the directory it leaves and the exception it raises.  The files are
\* written one after the other, so the ones written before an exception stay.
Exported(files, aggs, c) ==
    IF c \notin DOMAIN aggs THEN [csv |-> files, err |-> "none"]
    ELSE LET aggregator == aggs[c]
             raw_df     == get_raw_dataframe(aggregator)
             stats_df   == get_aggregated_stats(aggregator)
             vehicle_df == get_vehicle_metrics(aggregator)
             infra_df   == get_infrastructure_metrics(aggregator)
             files1 == IF IsEmpty(raw_df) THEN files
                       ELSE Put(files, <<c, "_raw.csv">>, Written(raw_df, {}))
             files2 == IF IsEmpty(stats_df.val) THEN files1
                       ELSE Put(files1, <<c, "_stats.csv">>, Written(stats_df.val, {}))
             files3 == IF IsEmpty(vehicle_df.val) THEN files2
                       ELSE Put(files2, <<c, "_vehicles.csv">>, Written(vehicle_df.val, {}))
             files4 == IF IsEmpty(infra_df.val) THEN files3
                       ELSE Put(files3, <<c, "_infrastructure.csv">>, Written(infra_df.val, {}))
         IN  IF stats_df.err # "none" THEN [csv |-> files1, err |-> stats_df.err]
             ELSE IF vehicle_df.err # "none" THEN [csv |-> files2, err |-> vehicle_df.err]
             ELSE IF infra_df.err # "none" THEN [csv |-> files3, err |-> infra_df.err]
             ELSE [csv |-> files4, err |-> "none"]

\* the statistics export_comparison and export_summary_table collect for
\* the names of config_names that have an aggregator, in that order
RECURSIVE AllStats(_, _)
AllStats(aggs, config_names) ==
    IF config_names = <<>> THEN <<>>
    ELSE IF Head(config_names) \notin DOMAIN aggs THEN AllStats(aggs, Tail(config_names))
    ELSE <<[config |-> Head(config_names),
            stats  |-> get_aggregated_stats(aggs[Head(config_names)])]>>
         \o AllStats(aggs, Tail(config_names))

\* the exception of the first statistics that raise, or "none"
FirstError(all_stats) ==
    LET failed == {i \in DOMAIN all_stats : all_stats[i].stats.err # "none"}
    IN  IF failed = {} THEN "none"
        ELSE all_stats[CHOOSE i \in failed : \A j \in failed : i <= j].stats.err

\* ExportManager.export_comparison(config_names): the pivot table has one
\* row per (module, scalar) and one column per configuration, holding the
\* first mean of that group, NaN where the configuration lacks the group
Compared(files, aggs, config_names) ==
    LET all_stats == AllStats(aggs, config_names)
        comparison_df == concat([i \in DOMAIN all_stats |-> all_stats[i].stats.val])
        keys == Unique([i \in DOMAIN comparison_df.rows |->
                           <<comparison_df.rows[i].module, comparison_df.rows[i].scalar>>])
        configs == {comparison_df.rows[i].config : i \in DOMAIN comparison_df.rows}
        First(k, c) ==
            LET found == SelectSeq(comparison_df.rows,
                                   LAMBDA r : <<r.module, r.scalar>> = k /\ r.config = c)
            IN  IF found = <<>> THEN NaN ELSE found[1].mean
        pivot_df == [cols |-> {"module", "scalar"} \cup configs,
                     rows |-> [i \in DOMAIN keys |->
                                  [module |-> keys[i][1], scalar |-> keys[i][2],
                                   mean |-> [c \in configs |-> First(keys[i], c)]]]]
    IN  IF DOMAIN aggs = {} \/ all_stats = <<>> THEN [csv |-> files, err |-> "none"]
        ELSE IF FirstError(all_stats) # "none" THEN [csv |-> files, err |-> FirstError(all_stats)]
        ELSE IF ~({"module", "scalar", "config", "mean"} \subseteq comparison_df.cols)
        THEN [csv |-> files, err |-> "KeyError"]
        ELSE [csv |-> Put(files, <<"comparison_all_configs.csv">>, Written(pivot_df, {})),
              err |-> "none"]

\* the groups of stats whose scalar name contains pattern, whatever the case
Metric(stats, pattern) ==
    SelectSeq(stats.rows, LAMBDA g : ContainsNoCase(g.scalar, pattern))

\* the row export_summary_table builds for one configuration; a key the
\* code leaves out of the row is NaN in the table
ExportSummaryRow(aggregator, stats) ==
    LET delay_metric    == Metric(stats, <<"reception_delay">>)
        cloud_metric    == Metric(stats, <<"cloud_delivery_latency">>)
        received_metric == Metric(stats, <<"received_flag">>)
        coverage_metric == Metric(stats, <<"in_coverage">>)
        Column(metric, k) == [i \in DOMAIN metric |-> metric[i][k]]
    IN  ("Configuration" :> aggregator.config_name)
        @@ ("Repetitions" :> Len(aggregator.repetitions))
        @@ ("Mean_Reception_Delay_ms" :>
              IF delay_metric = <<>> THEN NaN
              ELSE RatTimes(MeanOfRats(Column(delay_metric, "mean")), 1000))
        @@ ("Median_Reception_Delay_ms" :>
              IF delay_metric = <<>> THEN NaN
              ELSE RatTimes(MeanOfRats(Column(delay_metric, "median")), 1000))
        @@ ("Mean_Cloud_Latency_ms" :>
              IF cloud_metric = <<>> THEN NaN
              ELSE RatTimes(MeanOfRats(Column(cloud_metric, "mean")), 1000))
        @@ ("PDR_%" :>
              IF received_metric = <<>> THEN NaN
              ELSE RatOver(MeanOfRats(Column(received_metric, "mean")), 10))
        @@ ("Coverage_%" :>
              IF coverage_metric = <<>> THEN NaN
              ELSE RatOver(RatSum(Column(coverage_metric, "mean")),
                           10 * Sum(Column(coverage_metric, "count"))))

\* ExportManager.export_summary_table(config_names)
Summarised(files, aggs, config_names) ==
    LET all_stats == AllStats(aggs, config_names)
        summary_data == [i \in DOMAIN all_stats |->
                            ExportSummaryRow(aggs[all_stats[i].config], all_stats[i].stats.val)]
    IN  IF FirstError(all_stats) # "none" THEN [csv |-> files, err |-> FirstError(all_stats)]
        ELSE IF \E i \in DOMAIN all_stats : "scalar" \notin all_stats[i].stats.val.cols
        THEN [csv |-> files, err |-> "KeyError"]
        ELSE IF summary_data = <<>> THEN [csv |-> files, err |-> "none"]
        ELSE [csv |-> Put(files, <<"summary_statistics.csv">>,
                          Written([cols |-> {"Configuration", "Repetitions"} \cup
                                            {k \in {"Mean_Reception_Delay_ms",
                                                    "Median_Reception_Delay_ms",
                                                    "Mean_Cloud_Latency_ms", "PDR_%",
                                                    "Coverage_%"} :
                                               \E i \in DOMAIN summary_data :
                                                   ~IsNaN(summary_data[i][k])},
                                   rows |-> summary_data], {})),
              err |-> "none"]

\* the dict generate_summary_table appends for one configuration whose
\* combined data is d.  Std_Reception_Delay_ms holds the square of the
\* deviation, not rounded.
AnalysisSummaryRow(config, d) ==
    LET num_reps == IF "repetition" \in d.cols
                    THEN Cardinality({d.rows[i].repetition : i \in DOMAIN d.rows})
                    ELSE 1
        delay_stats == get_summary_stats(extract_reception_delays(d).val)
        cloud_stats == get_summary_stats(extract_cloud_latencies(d).val)
        pdr         == calculate_pdr(d).val
        coverage    == calculate_coverage(d).val
    IN  ("Configuration" :> config)
        @@ ("Scenario_Type" :> ConfigType(config))
        @@ ("Infrastructure" :> ConfigInfra(config))
        @@ ("Repetitions" :> num_reps)
        @@ ("PDR_%" :> RatRound(pdr, 100))
        @@ ("Mean_Reception_Delay_ms" :> RatRound(delay_stats.mean, 1))
        @@ ("Median_Reception_Delay_ms" :> RatRound(delay_stats.median, 1))
        @@ ("P95_Reception_Delay_ms" :> RatRound(delay_stats.p95, 1))
        @@ ("Std_Reception_Delay_ms" :> delay_stats.std)
        @@ ("Mean_Cloud_Latency_ms" :> RatRound(cloud_stats.mean, 1))
        @@ ("Median_Cloud_Latency_ms" :> RatRound(cloud_stats.median, 1))
        @@ ("Coverage_%" :> RatRound(coverage, 100))
        @@ ("Total_Vehicles" :> delay_stats.count)

\* generate_summary_table(loader, configs) for a loader holding the data d
\* and the generated_configs generated, on the directory files
SummaryTable(files, d, generated, configs) ==
    LET kept == SelectSeq(configs, LAMBDA c : ~IsEmpty(CombinedData(d, c)))
        failed == {i \in DOMAIN kept :
                      ~({"scalar", "value"} \subseteq CombinedData(d, kept[i]).cols)}
        summary_data == [i \in DOMAIN kept |->
                            AnalysisSummaryRow(kept[i], CombinedData(d, kept[i]))]
    IN  IF failed # {} THEN [csv |-> files, err |-> "KeyError"]
        ELSE IF summary_data = <<>> THEN [csv |-> files, err |-> "none"]
        ELSE [csv |-> Put(files, <<"summary_statistics.csv">>,
                          Written([cols |-> DOMAIN summary_data[1], rows |-> summary_data],
                                  {kept[i] : i \in DOMAIN kept} \cap
                                  {generated[i] : i \in DOMAIN generated})),
              err |-> "none"]

Ended(op, config, names, err) == [op |-> op, config |-> config, names |-> names, err |-> err]

\* ExportManager.export_configuration(config_name)
export_configuration(c) ==
    /\ LET out == Exported(csv, aggregators, c)
       IN  /\ csv' = out.csv
           /\ call' = Ended("export_configuration", c, <<>>, out.err)
    /\ UNCHANGED <<fs, data, aggregators, ret, loaderVars, parseVars, metricVars, scriptVars>>

\* ExportManager.export_comparison(config_names)
export_comparison(config_names) ==
    /\ LET out == Compared(csv, aggregators, config_names)
       IN  /\ csv' = out.csv
           /\ call' = Ended("export_comparison", "", config_names, out.err)
    /\ UNCHANGED <<fs, data, aggregators, ret, loaderVars, parseVars, metricVars, scriptVars>>

\* ExportManager.export_summary_table(config_names)
export_summary_table(config_names) ==
    /\ LET out == Summarised(csv, aggregators, config_names)
       IN  /\ csv' = out.csv
           /\ call' = Ended("export_summary_table", "", config_names, out.err)
    /\ UNCHANGED <<fs, data, aggregators, ret, loaderVars, parseVars, metricVars, scriptVars>>

\* generate_summary_table(loader, configs)
generate_summary_table(configs) ==
    /\ LET out == SummaryTable(csv, data, generated_configs, configs)
       IN  /\ csv' = out.csv
           /\ call' = Ended("generate_summary_table", "", configs, out.err)
    /\ UNCHANGED <<fs, data, aggregators, ret, loaderVars, parseVars, metricVars, scriptVars>>

\* the loaders DataLoader(use_only_generated=True) may become by loading
\* configs in turn; each load returns 1
RECURSIVE GeneratedLoads(_, _)
GeneratedLoads(loader, configs) ==
    IF configs = <<>> THEN {loader}
    ELSE UNION { GeneratedLoads([data |-> Put(loader.data, Head(configs), <<gen_df>>),
                                 generated_configs |->
                                     Append(loader.generated_configs, Head(configs))],
                                Tail(configs)) :
                 gen_df \in generate_for_config(Head(configs), NumVehicles) }

\* analyze_results(configs).  The old CSV files are removed, the loader is
\* DataLoader(use_only_generated=True), and every load returns 1, so
\* loaded_configs is configs.  The plots go to PLOTS_DIR, which is not held.
analyze_results(configs) ==
    /\ \E loader \in GeneratedLoads([data |-> EmptyDict, generated_configs |-> <<>>], configs) :
          LET out == IF DOMAIN loader.data = {} THEN [csv |-> EmptyDict, err |-> "none"]
                     ELSE SummaryTable(EmptyDict, loader.data, loader.generated_configs, configs)
          IN  /\ data' = loader.data
              /\ generated_configs' = loader.generated_configs
              /\ use_only_generated' = TRUE
              /\ csv' = out.csv
              /\ call' = Ended("analyze_results", "", configs, out.err)
    /\ UNCHANGED <<fs, aggregators, ret, parseVars, metricVars, scriptVars>>

\* the orders in which the directories of config_names may be enumerated
GlobChoices(config_names) ==
    LET names == {config_names[i] : i \in DOMAIN config_names}
    IN  {g \in [names -> UNION {Enumerations(GlobSca(c)) : c \in names}] :
            \A c \in names : g[c] \in Enumerations(GlobSca(c))}

\* the first loop of export_results: scan_results for each name in turn,
\* until one raises
RECURSIVE ScannedAll(_, _, _)
ScannedAll(aggs, config_names, globs) ==
    IF config_names = <<>> THEN [aggregators |-> aggs, err |-> "none"]
    ELSE LET out == Scanned(aggs, Head(config_names), globs[Head(config_names)])
         IN  IF out.err # "none" THEN [aggregators |-> out.aggregators, err |-> out.err]
             ELSE ScannedAll(out.aggregators, Tail(config_names), globs)

\* the second loop of export_results: export_configuration for each name
\* in turn, until one raises
RECURSIVE ExportedAll(_, _, _)
ExportedAll(files, aggs, config_names) ==
    IF config_names = <<>> THEN [csv |-> files, err |-> "none"]
    ELSE LET out == Exported(files, aggs, Head(config_names))
         IN  IF out.err # "none" THEN out
             ELSE ExportedAll(out.csv, aggs, Tail(config_names))

\* the calls of export_results after its first loop, each on the directory
\* the previous one left, unless the previous one raised
ExportedUnless(err, manager, config_names) ==
    IF err # "none" THEN [csv |-> EmptyDict, err |-> err]
    ELSE ExportedAll(EmptyDict, manager, config_names)

ComparedUnless(previous, manager, config_names) ==
    IF previous.err # "none" THEN previous
    ELSE Compared(previous.csv, manager, config_names)

SummarisedUnless(previous, manager, config_names) ==
    IF previous.err # "none" THEN previous
    ELSE Summarised(previous.csv, manager, config_names)

\* export_results(config_names).  The old CSV files are removed and the
\* manager is a new ExportManager.  Nothing in the function catches an
\* exception: the first call that raises ends the run, and __main__ exits.
export_results(config_names) ==
    /\ \E globs \in GlobChoices(config_names) :
          LET scanned == ScannedAll(EmptyDict, config_names, globs)
              manager == scanned.aggregators
              out == SummarisedUnless(
                         ComparedUnless(
                             ExportedUnless(scanned.err, manager, config_names),
                             manager, config_names),
                         manager, config_names)
          IN  /\ aggregators' = manager
              /\ csv' = out.csv
              /\ call' = Ended("export_results", "", config_names, out.err)
    /\ UNCHANGED <<fs, data, ret, loaderVars, parseVars, metricVars, scriptVars>>

-----------------------------------------------------------------------------
(* Inputs of the loaders: what the result directories hold.                *)

Sca(module, scalar, value) == <<Tok("scalar"), module, scalar, Tok(value)>>

\* a file without any record
Noise == << <<Tok("attr"), Tok("A"), Tok("B"), Tok("1.0")>>,
            <<Tok("scalar"), Tok("A"), Tok("B")>> >>

\* one content per file name, so that a frame tells which file it came from
ContentOf(n) ==
    CASE n = <<97>> \o DotSca ->
           << Sca(Vehicle("0"), InCoverageName, "1.0"),
              Sca(Vehicle("0"), ReceivedFlagName, "1") >>
      [] n = <<98>> \o DotSca ->
           << <<Tok("run"), Tok("General-0")>>,
              Sca(Vehicle("1"), InCoverageName, "0.0"),
              Sca(Vehicle("1"), ReceivedFlagName, "0.0") >>
      [] n = <<97, 45, 49>> \o DotSca ->
           << Sca(Vehicle("0"), <<"denm_", "reception_delay">>, "0.002"),
              Sca(Tok("X"), Tok("Y"), "notanumber") >>
      [] OTHER ->
           << Sca(Antenna, <<"cloud_delivery_latency">>, "0.002") >>

Directories ==
    {Absent} \cup
    { Directory(f) : f \in UNION { [S -> {Noise} \cup {ContentOf(n) : n \in S}] :
                                   S \in {T \in SUBSET FileNames : Cardinality(T) <= MaxFiles} } }

\* the directories whose files hold their own content or no record at all
OwnDirectories ==
    {d \in Directories : \A n \in DOMAIN d.files : d.files[n] \in {Noise, ContentOf(n)}}

\* the configurations the runs under test are asked for
LoadConfigs == {"Crashed_Terrestrial", "Witness_Hybrid"}

TwoFiles ==
    Directory([n \in {<<97>> \o DotSca, <<98>> \o DotSca} |-> ContentOf(n)])

NoLoad == [op |-> "none", config |-> "", glob |-> <<>>, value |-> 0, err |-> "none"]

NoRun == [op |-> "none", config |-> "", names |-> <<>>, err |-> "none"]

InitLoad ==
    /\ \E d1 \in OwnDirectories, d2 \in {Absent, TwoFiles} :
          fs = [n \in {lower(c) : c \in LoadConfigs} |->
                   IF n = lower("Crashed_Terrestrial") THEN d1 ELSE d2]
    /\ data = EmptyDict           \* DataLoader.__init__
    /\ use_only_generated = FALSE
    /\ generated_configs = <<>>
    /\ aggregators = EmptyDict    \* ExportManager.__init__
    /\ ret = NoLoad
    /\ csv = EmptyDict
    /\ call = NoRun

\* the configurations the export and analysis calls under test are asked for
ExportArgs == <<"Crashed_Terrestrial", "Crashed_Satellite">>

RunConfigs == {ExportArgs[i] : i \in DOMAIN ExportArgs}

AnalyzeArgs == {<<"Crashed_Terrestrial">>, <<"Crashed_Satellite">>}

\* two repetitions that report the same vehicle with the same flags
SameTwice ==
    Directory([n \in {<<97>> \o DotSca, <<98>> \o DotSca} |-> ContentOf(<<97>> \o DotSca)])

\* a missing directory, one without .sca file, one whose only file holds no
\* record, one with a file of records and a file without, one with two
\* files of records of two vehicles, and one with two files of records of
\* the same vehicle
SmallDirectories ==
    {Absent,
     Directory([n \in {<<98>> \o DotVec} |-> ContentOf(n)]),
     Directory([n \in {<<97>> \o DotSca} |-> Noise]),
     Directory([n \in {<<97>> \o DotSca, <<98>> \o DotSca} |->
                   IF n = <<97>> \o DotSca THEN ContentOf(n) ELSE Noise]),
     TwoFiles,
     SameTwice}

\* a.sca and b.sca, of which a.sca cannot be read
OneDenied == DirectoryDenying(TwoFiles.files, {<<97>> \o DotSca})

FreshObjects ==
    /\ data = EmptyDict           \* DataLoader.__init__
    /\ use_only_generated = FALSE
    /\ generated_configs = <<>>
    /\ aggregators = EmptyDict    \* ExportManager.__init__
    /\ ret = NoLoad
    /\ csv = EmptyDict
    /\ call = NoRun

InitExport ==
    /\ \E d1 \in SmallDirectories, d2 \in {Absent, TwoFiles} :
          fs = [n \in {lower(c) : c \in RunConfigs} |->
                   IF n = lower("Crashed_Terrestrial") THEN d1 ELSE d2]
    /\ FreshObjects

InitRuns ==
    /\ \E d1 \in {Absent, TwoFiles, OneDenied,
                   Directory([n \in {<<97>> \o DotSca} |-> Noise])},
          d2 \in {Absent, TwoFiles} :
          fs = [n \in {lower(c) : c \in RunConfigs} |->
                   IF n = lower("Crashed_Terrestrial") THEN d1 ELSE d2]
    /\ FreshObjects

-----------------------------------------------------------------------------
(* witness_storyboard.py.  The value of an environment variable is the     *)
(* sequence of its characters, and float() is computed on the characters.  *)
(* A float is an exact rational with a positive denominator, or NaN.       *)

\* the characters an environment value under test is made of
Chars == {"-", "0", "3", ".", "n", "a"}

Digits == {"0", "3"}

DigitValue(c) == IF c = "3" THEN 3 ELSE 0

RECURSIVE Pow10(_)
Pow10(k) == IF k = 0 THEN 1 ELSE 10 * Pow10(k - 1)

\* int(s) of a sequence of digits
RECURSIVE DigitsValue(_)
DigitsValue(s) ==
    IF s = <<>> THEN 0
    ELSE 10 * DigitsValue(SubSeq(s, 1, Len(s) - 1)) + DigitValue(s[Len(s)])

\* float(s) of a text without sign: "nan", or digits with at most one point
\* and at least one digit
UnsignedFloat(s) ==
    LET points == {i \in DOMAIN s : s[i] = "."}
        digits == SelectSeq(s, LAMBDA c : c \in Digits)
    IN  IF s = <<"n", "a", "n">> THEN Ok(NaN)
        ELSE IF /\ \A i \in DOMAIN s : s[i] \in Digits \cup {"."}
                /\ Cardinality(points) <= 1
                /\ digits # <<>>
        THEN Ok(Rat(DigitsValue(digits),
                    IF points = {} THEN 1 ELSE Pow10(Len(s) - (CHOOSE i \in points : TRUE))))
        ELSE Raise("ValueError")

\* float(s) of a text over Chars: an optional sign, then the unsigned text
StrToFloat(s) ==
    IF s # <<>> /\ s[1] = "-"
    THEN LET u == UnsignedFloat(Tail(s))
         IN  IF u.err = "none" THEN Ok(Rat(0 - u.val.num, u.val.den)) ELSE u
    ELSE UnsignedFloat(s)

\* a < 0; every comparison with NaN is False
RatNegative(a) == ~IsNaN(a) /\ a.num < 0

DEFAULT_WITNESS_DELAY == Rat(3, 1)

\* os.environ.get("STELVIO_WITNESS_DELAY"): None, or the text of the entry
Unset == [set |-> FALSE, value |-> <<>>]

Setenv(s) == [set |-> TRUE, value |-> s]

Environments == {Unset} \cup {Setenv(s) : s \in SeqsUpTo(Chars, MaxChars)}

\* _resolve_witness_delay() under the environment entry env_value
WitnessDelay(env_value) ==
    IF ~env_value.set \/ env_value.value = <<>> THEN DEFAULT_WITNESS_DELAY
    ELSE LET delay == StrToFloat(env_value.value)
         IN  IF delay.err # "none" THEN DEFAULT_WITNESS_DELAY       \* float() raised
             ELSE IF RatNegative(delay.val) THEN DEFAULT_WITNESS_DELAY  \* raise ValueError
             ELSE delay.val

\* storyboard.Story(AndCondition(TimeCondition(timeline.seconds(seconds)),
\* LimitCondition(limit)), [effect])
Story(seconds, limit, effect) == [seconds |-> seconds, limit |-> limit, effect |-> effect]

NoResolve == [op |-> "none", out |-> Rat(0, 1)]

InitStory ==
    /\ environ \in Environments
    /\ resolved = NoResolve
    /\ board = <<>>

IdleStory == environ = Unset /\ resolved = NoResolve /\ board = <<>>

\* _resolve_witness_delay()
resolve_witness_delay ==
    /\ resolved' = [op |-> "_resolve_witness_delay", out |-> WitnessDelay(environ)]
    /\ UNCHANGED <<environ, board, parseVars, metricVars, loadVars, guiVars>>

\* createStories(board), called once on the board of a simulation run
createStories ==
    /\ board = <<>>
    /\ LET witness_delay == WitnessDelay(environ)
           witness_trigger_time == RatAdd(Rat(200, 1), witness_delay)
       IN  /\ resolved' = [op |-> "_resolve_witness_delay", out |-> witness_delay]
           /\ board' = <<Story(Rat(200, 1), 1, "StopEffect"),
                         Story(witness_trigger_time, 1, "SignalEffect(witness_report)")>>
    /\ UNCHANGED <<environ, parseVars, metricVars, loadVars, guiVars>>

-----------------------------------------------------------------------------
(* simulation_gui.py.  The GUI thread runs the handlers of StelvioGUI; a   *)
(* MakeWorker runs in a thread of its own and reads the output of the make *)
(* process it starts.  A signal a worker emits is queued and delivered to  *)
(* its slot by the GUI thread, in the order of emission.                   *)

\* the push buttons of the central widget, by the make target of their
\* tooltip; "stop" is stop_btn
MakeButtons == {"build", "run", "analyze", "export-csv"}

CommandButtons == MakeButtons \cup {"clean", "help"}

Buttons == CommandButtons \cup {"stop"}

\* the make process of a worker, the local variable process of run(): lines
\* written and not yet read are pending
NoProcess == [state |-> "none", returncode |-> 0, pending |-> 0, written |-> 0]

\* a MakeWorker after __init__.  The make target is not kept: run() hands it
\* to make, and what make does is left open.  emitted and message record
\* the finished signals of the worker, handled that on_finished has run
\* for it
MakeWorker ==
    [_running |-> TRUE, pc |-> "created", process |-> NoProcess,
     emitted |-> 0, message |-> "", handled |-> FALSE]

\* QThread.isRunning(): from start() until run() has returned
isRunning(w) == w.pc \in {"started", "streaming", "emitted"}

BusyWhileReading == self_worker # 0 /\ workers[self_worker].pc = "streaming"

\* "self.worker and self.worker.isRunning()"
Busy == self_worker # 0 /\ isRunning(workers[self_worker])

\* the worker w after self.finished.emit(success, message); the emitting
\* thread goes on to return from run()
Emitting(w, message) ==
    [w EXCEPT !.pc = "emitted", !.emitted = @ + 1, !.message = message]

Finished(i, success, message) ==
    [signal |-> "finished", worker |-> i, success |-> success, message |-> message]

Output(i) == [signal |-> "output", worker |-> i, success |-> FALSE, message |-> ""]

\* what StelvioGUI.run_make leaves
RunMade ==
    IF Busy
    THEN [workers |-> workers, self_worker |-> self_worker, enabled |-> enabled,
          status |-> status, dialog |-> "Busy"]
    ELSE [workers |-> Append(workers, [MakeWorker EXCEPT !.pc = "started"]),
          self_worker |-> Len(workers) + 1,
          enabled |-> [b \in Buttons |-> b = "stop"],
          status |-> "Running",
          dialog |-> dialog]

\* StelvioGUI.__init__ and initUI
InitGui ==
    /\ workers = <<>>
    /\ self_worker = 0
    /\ queue = <<>>
    /\ enabled = [b \in Buttons |-> b # "stop"]
    /\ dialog = "none"
    /\ status = "Ready"

IdleGui == InitGui

\* a click on one of the buttons wired to run_make(command)
run_make(command) ==
    /\ enabled[command] /\ dialog = "none"
    /\ ~Busy => Len(workers) < MaxWorkers
    /\ workers' = RunMade.workers
    /\ self_worker' = RunMade.self_worker
    /\ enabled' = RunMade.enabled
    /\ status' = RunMade.status
    /\ dialog' = RunMade.dialog
    /\ UNCHANGED <<queue, storyVars, parseVars, metricVars, loadVars>>

\* a click on "Clean Results": the question box is answered, and Yes runs
\* run_make("clean")
clean_results ==
    /\ enabled["clean"] /\ dialog = "none"
    /\ ~Busy => Len(workers) < MaxWorkers
    /\ \E reply \in {"Yes", "No"} :
          IF reply = "Yes"
          THEN /\ workers' = RunMade.workers
               /\ self_worker' = RunMade.self_worker
               /\ enabled' = RunMade.enabled
               /\ status' = RunMade.status
               /\ dialog' = RunMade.dialog
          ELSE UNCHANGED <<workers, self_worker, enabled, status, dialog>>
    /\ UNCHANGED <<queue, storyVars, parseVars, metricVars, loadVars>>

\* a click on "Show Help"
show_help ==
    /\ enabled["help"] /\ dialog = "none"
    /\ dialog' = "Help"
    /\ UNCHANGED <<workers, self_worker, queue, enabled, status,
                   storyVars, parseVars, metricVars, loadVars>>

\* a click on stop_btn: StelvioGUI.stop_operation, MakeWorker.stop
stop_operation ==
    /\ enabled["stop"] /\ dialog = "none"
    /\ IF self_worker # 0
       THEN workers' = [workers EXCEPT ![self_worker]._running = FALSE]
       ELSE workers' = workers
    /\ UNCHANGED <<self_worker, queue, enabled, dialog, status,
                   storyVars, parseVars, metricVars, loadVars>>

\* the user closes the message box
CloseDialog ==
    /\ dialog # "none"
    /\ dialog' = "none"
    /\ UNCHANGED <<workers, self_worker, queue, enabled, status,
                   storyVars, parseVars, metricVars, loadVars>>

\* the GUI thread delivers an output signal: StelvioGUI.append_output
append_output ==
    /\ queue # <<>> /\ Head(queue).signal = "output"
    /\ queue' = Tail(queue)
    /\ UNCHANGED <<workers, self_worker, enabled, dialog, status,
                   storyVars, parseVars, metricVars, loadVars>>

\* the GUI thread delivers a finished signal: StelvioGUI.on_finished.
\* stop_btn is disabled, then the loop over findChildren(QPushButton), of
\* which stop_btn is one, enables every button
on_finished ==
    /\ queue # <<>> /\ Head(queue).signal = "finished"
    /\ queue' = Tail(queue)
    /\ status' = Head(queue).message
    /\ enabled' = [b \in Buttons |-> TRUE]
    /\ dialog' = IF Head(queue).success THEN "Success" ELSE "Failed"
    /\ workers' = [workers EXCEPT ![Head(queue).worker].handled = TRUE]
    /\ UNCHANGED <<self_worker, storyVars, parseVars, metricVars, loadVars>>

\* MakeWorker.run up to the loop: the first output, then subprocess.Popen,
\* which starts make or raises
MakeWorker_run(i) ==
    /\ workers[i].pc = "started"
    /\ \E popen \in {"started", "OSError"} :
          IF popen = "started"
          THEN /\ workers' = [workers EXCEPT ![i].pc = "streaming",
                                             ![i].process.state = "alive"]
               /\ queue' = Append(queue, Output(i))
          ELSE /\ workers' = [workers EXCEPT ![i] = Emitting(@, "Error")]
               /\ queue' = queue \o <<Output(i), Finished(i, FALSE, "Error")>>
    /\ UNCHANGED <<self_worker, enabled, dialog, status,
                   storyVars, parseVars, metricVars, loadVars>>

\* one turn of "for line in process.stdout" with a line to read: the line
\* is taken, then _running is looked at
MakeWorker_read_line(i) ==
    /\ workers[i].pc = "streaming" /\ workers[i].process.pending > 0
    /\ IF ~workers[i]._running
       THEN /\ workers' = [workers EXCEPT
                              ![i] = Emitting([@ EXCEPT !.process.state = "terminated",
                                                        !.process.pending = @ - 1],
                                              "Cancelled by user")]
            /\ queue' = Append(queue, Finished(i, FALSE, "Cancelled by user"))
       ELSE /\ workers' = [workers EXCEPT ![i].process.pending = @ - 1]
            /\ queue' = Append(queue, Output(i))
    /\ UNCHANGED <<self_worker, enabled, dialog, status,
                   storyVars, parseVars, metricVars, loadVars>>

\* the loop ends at the end of the output, process.wait() returns, and the
\* return code decides the finished signal
MakeWorker_wait(i) ==
    /\ workers[i].pc = "streaming" /\ workers[i].process.pending = 0
    /\ workers[i].process.state = "exited"
    /\ LET success == workers[i].process.returncode = 0
           message == IF success THEN "Command completed successfully"
                      ELSE "Command failed with exit code"
       IN  /\ workers' = [workers EXCEPT ![i] = Emitting(@, message)]
           /\ queue' = Append(queue, Finished(i, success, message))
    /\ UNCHANGED <<self_worker, enabled, dialog, status,
                   storyVars, parseVars, metricVars, loadVars>>

\* run() returns, its local process goes, and the thread ends
MakeWorker_return(i) ==
    /\ workers[i].pc = "emitted"
    /\ workers' = [workers EXCEPT ![i].pc = "returned", ![i].process = NoProcess]
    /\ UNCHANGED <<self_worker, queue, enabled, dialog, status,
                   storyVars, parseVars, metricVars, loadVars>>

\* the make process writes a line
make_writes(i) ==
    /\ workers[i].process.state = "alive" /\ workers[i].process.written < MaxOutput
    /\ workers' = [workers EXCEPT ![i].process.pending = @ + 1,
                                  ![i].process.written = @ + 1]
    /\ UNCHANGED <<self_worker, queue, enabled, dialog, status,
                   storyVars, parseVars, metricVars, loadVars>>

\* the make process exits
make_exits(i) ==
    /\ workers[i].process.state = "alive"
    /\ \E returncode \in {0, 2} :
          workers' = [workers EXCEPT ![i].process.state = "exited",
                                     ![i].process.returncode = returncode]
    /\ UNCHANGED <<self_worker, queue, enabled, dialog, status,
                   storyVars, parseVars, metricVars, loadVars>>

IdleScripts == IdleStory /\ IdleGui

\* the configuration that is loaded again and again while its result
\* directory changes
ReloadConfigs == {"Crashed_Terrestrial"}

\* a.sca and b.sca, of which b.sca cannot be read
SecondDenied == DirectoryDenying(TwoFiles.files, {<<98>> \o DotSca})

\* what the result directory of a configuration may become between two
\* loads: removed, emptied of .sca files, one file, two files, and two files
\* of which the first or the second cannot be read
ReloadDirectories ==
    {Absent,
     Directory([n \in {<<98>> \o DotVec} |-> ContentOf(n)]),
     Directory([n \in {<<97>> \o DotSca} |-> ContentOf(n)]),
     TwoFiles, OneDenied, SecondDenied}

InitReload ==
    /\ \E d \in ReloadDirectories : fs = [n \in {lower(c) : c \in ReloadConfigs} |-> d]
    /\ FreshObjects

\* the simulator or "make clean" rewrites the result directory of c
WriteResults(c) ==
    /\ \E d \in ReloadDirectories : d # fs[lower(c)] /\ fs' = Put(fs, lower(c), d)
    /\ UNCHANGED <<data, aggregators, ret, loaderVars, exportVars, parseVars, metricVars,
                   scriptVars>>

\* VisualizationDataGenerator.generate_for_config(config_name, num_vehicles),
\* the frame it returns being handed to MetricExtractor
VisualizationDataGenerator_generate_for_config(c) ==
    /\ \E gen_df \in generate_for_config(c, NumVehicles) :
          /\ df' = gen_df
          /\ result' = Called("generate_for_config", c, Ok(gen_df))
    /\ UNCHANGED <<parseVars, loadVars, scriptVars>>

IdleParse   == file = <<>> /\ parsed = NoCall /\ parser = NoParser
IdleMetrics == df = EmptyFrame /\ result = NoCall
IdleLoad ==
    /\ fs = EmptyDict /\ data = EmptyDict /\ aggregators = EmptyDict /\ ret = NoLoad
    /\ use_only_generated = FALSE /\ generated_configs = <<>>
    /\ csv = EmptyDict /\ call = NoRun

-----------------------------------------------------------------------------
(* Specifications.                                                         *)

\* the loaders over the result directories
Init == InitLoad /\ IdleParse /\ IdleMetrics /\ IdleScripts

Next ==
    \/ \E c \in LoadConfigs : load_configuration(c)
    \/ \E c \in LoadConfigs : scan_results(c)

Spec == Init /\ [][Next]_vars

\* the export and summary calls over the loaded result directories
InitE == InitExport /\ IdleParse /\ IdleMetrics /\ IdleScripts

NextE ==
    \/ \E c \in RunConfigs : load_configuration(c)
    \/ \E c \in RunConfigs : scan_results(c)
    \/ \E c \in RunConfigs : export_configuration(c)
    \/ export_comparison(ExportArgs)
    \/ export_summary_table(ExportArgs)
    \/ generate_summary_table(ExportArgs)

SpecExport == InitE /\ [][NextE]_vars

\* whole runs of the two scripts, one after the other
InitR == InitRuns /\ IdleParse /\ IdleMetrics /\ IdleScripts

NextR ==
    \/ \E configs \in AnalyzeArgs : analyze_results(configs)
    \/ export_results(ExportArgs)

SpecRuns == InitR /\ [][NextR]_vars

\* loads of one configuration whose result directory changes between them
InitL == InitReload /\ IdleParse /\ IdleMetrics /\ IdleScripts

NextL ==
    \/ \E c \in ReloadConfigs : load_configuration(c)
    \/ \E c \in ReloadConfigs : scan_results(c)
    \/ \E c \in ReloadConfigs : WriteResults(c)

SpecReload == InitL /\ [][NextL]_vars

\* the data generator and the delivery ratio of what it generates
InitG == IdleMetrics /\ IdleParse /\ IdleLoad /\ IdleScripts

NextG ==
    \/ \E c \in ALL_CONFIGS : VisualizationDataGenerator_generate_for_config(c)
    \/ MetricExtractor_calculate_pdr

SpecGenerate == InitG /\ [][NextG]_vars

\* the control panel, its workers and their make processes
InitC == InitGui /\ IdleStory /\ IdleParse /\ IdleMetrics /\ IdleLoad

NextC ==
    \/ \E command \in MakeButtons : run_make(command)
    \/ clean_results
    \/ show_help
    \/ stop_operation
    \/ CloseDialog
    \/ append_output
    \/ on_finished
    \/ \E i \in DOMAIN workers : MakeWorker_run(i)
    \/ \E i \in DOMAIN workers : MakeWorker_read_line(i)
    \/ \E i \in DOMAIN workers : MakeWorker_wait(i)
    \/ \E i \in DOMAIN workers : MakeWorker_return(i)
    \/ \E i \in DOMAIN workers : make_writes(i)
    \/ \E i \in DOMAIN workers : make_exits(i)

SpecGui == InitC /\ [][NextC]_vars

\* a step of the thread of the worker i
WorkerStep(i) ==
    /\ i \in DOMAIN workers
    /\ \/ MakeWorker_run(i)
       \/ MakeWorker_read_line(i)
       \/ MakeWorker_wait(i)
       \/ MakeWorker_return(i)

\* the event loop of the GUI thread delivers a queued signal
Delivery == append_output \/ on_finished

\* the control panel with its scheduling: every worker thread that can
\* step does, the event loop delivers every queued signal (a modal box
\* runs the loop too), and a make process ends.  Nothing makes the user
\* click or make write
SpecGuiFair ==
    /\ InitC /\ [][NextC]_vars
    /\ \A i \in 1..MaxWorkers : WF_vars(WorkerStep(i))
    /\ WF_vars(Delivery)
    /\ \A i \in 1..MaxWorkers : WF_vars(i \in DOMAIN workers /\ make_exits(i))

\* the parsers over one file
InitP == InitParse /\ IdleMetrics /\ IdleLoad /\ IdleScripts

NextP ==
    \/ SCAParser_parse
    \/ Export_SCAParser_parse
    \/ SCAParser_parse_again
    \/ Export_SCAParser_parse_again

SpecParse == InitP /\ [][NextP]_vars

\* the witness storyboard under the values of STELVIO_WITNESS_DELAY
InitW == InitStory /\ IdleGui /\ IdleParse /\ IdleMetrics /\ IdleLoad

NextW == resolve_witness_delay \/ createStories

SpecWitness == InitW /\ [][NextW]_vars

\* the metric extractors over one combined dataset
InitM == InitMetrics /\ IdleParse /\ IdleLoad /\ IdleScripts

NextM ==
    \/ MetricExtractor_calculate_pdr
    \/ MetricExtractor_calculate_coverage
    \/ MetricExtractor_extract_reception_delays
    \/ MetricExtractor_extract_cloud_latencies
    \/ MetricExtractor_get_summary_stats_delays
    \/ MetricExtractor_get_summary_stats_cloud

SpecMetrics == InitM /\ [][NextM]_vars

-----------------------------------------------------------------------------
(* Properties of MetricExtractor, under SpecMetrics.                       *)

RowsWhere(d, P(_)) == {i \in DOMAIN d.rows : P(d.rows[i])}

RECURSIVE ValueTotal(_, _)
ValueTotal(d, I) ==
    IF I = {} THEN 0
    ELSE LET i == CHOOSE j \in I : TRUE
         IN  d.rows[i].value + ValueTotal(d, I \ {i})

InCoverageRecords(d) == RowsWhere(d, LAMBDA r : r.scalar = InCoverageName)
InCoverageCount(d)   == Cardinality(RowsWhere(d, LAMBDA r : r.scalar = InCoverageName
                                                            /\ r.value = 1000))
ReceivedTotal(d)     == ValueTotal(d, RowsWhere(d, LAMBDA r : r.scalar = ReceivedFlagName))

Percent(p) == Rat(p, 1)

\* every vehicle reports each flag at most once, the received flag is 0 or 1,
\* and it is 1 for exactly the vehicles whose coverage flag is 1
ReceivedExactlyInCoverage(d) ==
    /\ \A i, j \in DOMAIN d.rows :
          (/\ i # j
           /\ d.rows[i].module = d.rows[j].module
           /\ d.rows[i].scalar \in {InCoverageName, ReceivedFlagName})
          => d.rows[i].scalar # d.rows[j].scalar
    /\ \A i \in DOMAIN d.rows :
          d.rows[i].scalar = ReceivedFlagName => d.rows[i].value \in {0, 1000}
    /\ {d.rows[i].module : i \in RowsWhere(d, LAMBDA r : r.scalar = ReceivedFlagName
                                                         /\ r.value = 1000)}
       = {d.rows[i].module : i \in RowsWhere(d, LAMBDA r : r.scalar = InCoverageName
                                                           /\ r.value = 1000)}

\* C1: on a dataset with at least one denm_in_coverage record of value 1.0,
\* calculate_pdr returns the sum of the denm_received_flag values divided by
\* the number of denm_in_coverage records of value 1.0, times 100; it is 100
\* when the received flag is 1 for exactly the in-coverage vehicles.
PdrIsReceivedOverInCoverage ==
    (result.op = "calculate_pdr" /\ InCoverageCount(df) >= 1) =>
        /\ result.out.err = "none"
        /\ RatEq(result.out.val, Rat(ReceivedTotal(df), 10 * InCoverageCount(df)))
        /\ ReceivedExactlyInCoverage(df) => RatEq(result.out.val, Percent(100))

\* a vehicle out of coverage is in the dataset, and the ratio is still 100
PdrOverInCoverageSeen ==
    /\ result.op = "calculate_pdr"
    /\ InCoverageCount(df) >= 1
    /\ Cardinality(InCoverageRecords(df)) > InCoverageCount(df)
    /\ ReceivedExactlyInCoverage(df)
    /\ RatEq(result.out.val, Percent(100))

\* C2: for any dataset, the value calculate_pdr returns is between 0 and 100.
PdrWithinBounds ==
    (result.op = "calculate_pdr" /\ result.out.err = "none") =>
        /\ RatLeq(Percent(0), result.out.val)
        /\ RatLeq(result.out.val, Percent(100))

\* C3: calculate_pdr returns exactly 0.0 and raises no error on every dataset
\* without a denm_in_coverage record of value 1.0, the dataset without any
\* record included.
PdrZeroWithoutCoverage ==
    (result.op = "calculate_pdr" /\ InCoverageCount(df) = 0) =>
        /\ result.out.err = "none"
        /\ RatEq(result.out.val, Percent(0))

\* C4: for every dataset, calculate_coverage returns the sum of the
\* denm_in_coverage values divided by the number of denm_in_coverage records,
\* times 100, and 0 when there is no such record; 60 for 12 of 20.
CoverageIsShareOfFlag ==
    result.op = "calculate_coverage" =>
        /\ result.out.err = "none"
        /\ IF InCoverageRecords(df) = {}
           THEN RatEq(result.out.val, Percent(0))
           ELSE RatEq(result.out.val,
                      Rat(ValueTotal(df, InCoverageRecords(df)),
                          10 * Cardinality(InCoverageRecords(df))))
        /\ df = CoverageScenario => RatEq(result.out.val, Percent(60))

\* the name holds the fragments of pattern, one after the other, in any case
NameHolds(name, pattern) ==
    \E k \in 0..Len(name) :
        \A i \in DOMAIN pattern :
            k + i <= Len(name) /\ LowerFrag(name[k + i]) = LowerFrag(pattern[i])

\* the milliseconds of the records named after pattern, in record order;
\* values that are not positive are left out when positive is TRUE
RECURSIVE Milliseconds(_, _, _)
Milliseconds(rows, pattern, positive) ==
    IF rows = <<>> THEN <<>>
    ELSE LET r == Head(rows)
         IN  (IF NameHolds(r.scalar, pattern) /\ (~positive \/ r.value > 0)
              THEN <<r.value * 1000>> ELSE <<>>)
             \o Milliseconds(Tail(rows), pattern, positive)

CloudLatenciesOnePerRecord ==
    (result.op = "extract_cloud_latencies" /\ df.rows # <<>>) =>
        /\ result.out.err = "none"
        /\ Len(result.out.val) =
              Cardinality(RowsWhere(df, LAMBDA r : NameHolds(r.scalar,
                                                             <<"cloud_delivery_latency">>)))
        /\ result.out.val = Milliseconds(df.rows, <<"cloud_delivery_latency">>, FALSE)

\* a cloud latency that is not positive was kept
CloudLatencyNotPositiveKept ==
    /\ result.op = "extract_cloud_latencies"
    /\ result.out.err = "none"
    /\ \E i \in DOMAIN result.out.val : result.out.val[i] <= 0

\* C7: get_summary_stats on an empty series returns mean, median, std, min,
\* max, p95 and count all 0 and raises no error.
SummaryOfEmptySeriesIsZero ==
    (result.op = "get_summary_stats" /\ result.arg = <<>>) =>
        /\ result.out.err = "none"
        /\ \A k \in {"mean", "median", "std", "min", "max", "p95"} :
              RatEq(result.out.val[k], Rat(0, 1))
        /\ result.out.val.count = 0

\* the series was empty because every delay record was filtered out
SummaryOfFilteredOutDelays ==
    /\ result.op = "get_summary_stats"
    /\ result.arg = <<>>
    /\ \E i \in DOMAIN df.rows :
          NameHolds(df.rows[i].scalar, <<"denm_", "reception_delay">>)
    /\ extract_reception_delays(df).val = <<>>
    /\ result.out.val.count = 0

-----------------------------------------------------------------------------
(* Properties of SCAParser.parse, under SpecParse.                         *)

\* the first whitespace-separated token is the keyword scalar
IsScalarLine(line) == Len(line) >= 1 /\ line[1] = <<"scalar">>

WellFormed(line) == Len(line) >= 4 /\ line[4] \in DOMAIN FloatTable

Triple(r) == <<r.module, r.scalar, r.value>>

Triples(rows) == [i \in DOMAIN rows |-> Triple(rows[i])]

\* what the parser under test makes of one line on its own
AloneTriples(op, line) ==
    Triples(IF op = "parse" THEN parse(<<line>>).rows ELSE export_parse(<<line>>).rows)

\* a scalar line gives its record when it is well formed and nothing when it
\* is not; any other line gives what it gives on its own
RECURSIVE ExpectedTriples(_, _)
ExpectedTriples(op, lines) ==
    IF lines = <<>> THEN <<>>
    ELSE LET l == Head(lines)
         IN  (IF IsScalarLine(l)
              THEN IF WellFormed(l) THEN << <<l[2], l[3], FloatTable[l[4]]>> >> ELSE <<>>
              ELSE AloneTriples(op, l))
             \o ExpectedTriples(op, Tail(lines))

\* C8: parse returns one record per scalar line with at least 4 tokens and a
\* numeric 4th token, made of tokens 2, 3 and 4, in file order; a scalar line
\* with fewer tokens or a non-numeric 4th token yields no record, raises no
\* error and leaves the records of the other lines as they are.
ParseKeepsWellFormedScalarLines ==
    parsed.op \in {"parse", "export_parse"} =>
        /\ parsed.out.err = "none"
        /\ Triples(parsed.out.val.rows) = ExpectedTriples(parsed.op, parsed.arg)
        /\ parsed.out.val.rows # <<>> =>
              {"module", "scalar", "value"} \subseteq parsed.out.val.cols

\* a malformed scalar line before a well-formed one: one record
MalformedLineSkipped ==
    /\ parsed.op = "parse"
    /\ \E i, j \in DOMAIN parsed.arg :
          /\ i < j
          /\ IsScalarLine(parsed.arg[i]) /\ ~WellFormed(parsed.arg[i])
          /\ Len(parsed.arg[i]) >= 4
          /\ IsScalarLine(parsed.arg[j]) /\ WellFormed(parsed.arg[j])
    /\ Len(parsed.out.val.rows) = 1

\* C9: only a line whose first token is the keyword scalar produces a
\* record; a line whose first token is anything else produces none.
OnlyScalarLinesYieldRecords ==
    parsed.op \in {"parse", "export_parse"} =>
        Len(parsed.out.val.rows)
           <= Cardinality({i \in DOMAIN parsed.arg : IsScalarLine(parsed.arg[i])})

-----------------------------------------------------------------------------
(* Properties of the loaders, under Spec.                                  *)

\* the .sca files of the configuration's directory
ScaFilesOf(c) ==
    IF lower(c) \in DOMAIN fs /\ fs[lower(c)].exists
    THEN {n \in DOMAIN fs[lower(c)].files : EndsWith(n, DotSca)}
    ELSE {}

\* the position of a file among the .sca files of its directory, in lexical
\* order of the names
LexicalRank(c, n) == 1 + Cardinality({m \in ScaFilesOf(c) : LexLess(m, n)})

\* the frames the last load call stored for its configuration
StoredFrames ==
    IF ret.op = "load_configuration" THEN data[ret.config]
    ELSE aggregators[ret.config].raw_data

\* C10: loading a configuration whose directory holds N result files gives
\* the k-th file in lexical order of the names the repetition index k,
\* whatever the order in which the file system enumerates them, and returns N.
RepetitionsFollowLexicalOrder ==
    ret.op \in {"load_configuration", "scan_results"} =>
        LET c == ret.config
            N == Cardinality(ScaFilesOf(c))
        IN  /\ ret.value = N
            /\ N >= 1 =>
                 /\ Len(StoredFrames) = N
                 /\ \A n \in ScaFilesOf(c) :
                       LET k == LexicalRank(c, n)
                           f == StoredFrames[k]
                       IN  /\ "repetition" \in f.cols
                           /\ \A i \in DOMAIN f.rows : f.rows[i].repetition = k
                           /\ Triples(f.rows) = Triples(parse(fs[lower(c)].files[n]).rows)

\* three files were enumerated out of lexical order and every one of them
\* holds a record
LoadedOutOfEnumerationOrder ==
    /\ ret.op = "load_configuration"
    /\ ret.value = 3
    /\ \E i, j \in DOMAIN ret.glob : i < j /\ LexLess(ret.glob[j], ret.glob[i])
    /\ \A k \in DOMAIN data[ret.config] : data[ret.config][k].rows # <<>>


-----------------------------------------------------------------------------
(* Properties of the export and summary calls, under SpecExport.           *)

\* the result directory of c is missing or holds no .sca file
NoResultFile(c) == ~DirExists(c) \/ GlobSca(c) = {}

Without(names, c) == SelectSeq(names, LAMBDA n : n # c)

\* the configurations named in the rows of the summary table in the directory
SummaryConfigurations ==
    IF <<"summary_statistics.csv">> \notin DOMAIN csv THEN {}
    ELSE LET rows == csv[<<"summary_statistics.csv">>].table.rows
         IN  {rows[i]["Configuration"] : i \in DOMAIN rows}

\* C11: when the result directory of a configuration is missing or holds no
\* .sca file, loading it returns 0 and raises nothing, export_configuration
\* for it returns without raising and without writing, the comparison and
\* both summary tables end and write exactly as they do when the
\* configuration is not asked for, and no file in the CSV directory is
\* about it
MissingConfigurationOmitted ==
    \A c \in RunConfigs :
        NoResultFile(c) =>
            /\ (ret.op \in {"load_configuration", "scan_results"} /\ ret.config = c)
                    => (ret.value = 0 /\ ret.err = "none")
            /\ Exported(csv, aggregators, c) = [csv |-> csv, err |-> "none"]
            /\ (call.op = "export_configuration" /\ call.config = c) => call.err = "none"
            /\ Compared(csv, aggregators, ExportArgs)
                    = Compared(csv, aggregators, Without(ExportArgs, c))
            /\ Summarised(csv, aggregators, ExportArgs)
                    = Summarised(csv, aggregators, Without(ExportArgs, c))
            /\ SummaryTable(csv, data, generated_configs, ExportArgs)
                    = SummaryTable(csv, data, generated_configs, Without(ExportArgs, c))
            /\ \A f \in DOMAIN csv : f[1] # c
            /\ c \notin SummaryConfigurations

\* a directory without .sca file was loaded, which returned 0, and the
\* summary table was then written for the other configuration alone
MissingConfigurationLoadedAndSummarised ==
    \E c \in RunConfigs :
        /\ DirExists(c) /\ GlobSca(c) = {}
        /\ ret.op = "scan_results" /\ ret.config = c /\ ret.value = 0
        /\ call.op = "export_summary_table" /\ call.err = "none"
        /\ SummaryConfigurations = RunConfigs \ {c}

-----------------------------------------------------------------------------
(* Properties of the stored batches, under Spec.                           *)

\* every record of the frame d has the columns repetition and config, with
\* the values rep_num and c
CarriesBothTags(d, rep_num, c) ==
    \A i \in DOMAIN d.rows :
        /\ {"repetition", "config"} \subseteq d.cols
        /\ d.rows[i].repetition = rep_num
        /\ d.rows[i].config = c

\* C12: every record of every stored batch carries the repetition index and
\* the configuration key the batch was added for, in DataLoader.data and in
\* the raw_data of every ResultAggregator
BatchRecordsCarryBothTags ==
    /\ \A c \in DOMAIN data :
          \A idx \in DOMAIN data[c] : CarriesBothTags(data[c][idx], idx, c)
    /\ \A c \in DOMAIN aggregators :
          \A k \in DOMAIN aggregators[c].raw_data :
              CarriesBothTags(aggregators[c].raw_data[k], aggregators[c].repetitions[k], c)

\* the number of records in the batches before the k-th
RECURSIVE RecordsBefore(_, _)
RecordsBefore(batches, k) ==
    IF k <= 1 THEN 0 ELSE RecordsBefore(batches, k - 1) + Len(batches[k - 1].rows)

\* the i-th record of the k-th batch is the record of d at the position that
\* follows all records of the batches before, and d has no other record
IsConcatenation(d, batches) ==
    /\ Len(d.rows) = RecordsBefore(batches, Len(batches) + 1)
    /\ \A k \in DOMAIN batches :
          \A i \in DOMAIN batches[k].rows :
              d.rows[RecordsBefore(batches, k) + i] = batches[k].rows[i]

\* C13: the combined dataset of a configuration is the concatenation of its
\* batches in insertion order, each batch in its own record order, for both
\* aggregators; for a configuration without any batch it is a dataset
\* without records
CombinedIsConcatenationOfBatches ==
    /\ \A c \in DOMAIN data : IsConcatenation(get_combined_data(c), data[c])
    /\ \A c \in DOMAIN aggregators :
          IsConcatenation(get_raw_dataframe(aggregators[c]), aggregators[c].raw_data)
    /\ \A c \in LoadConfigs \ DOMAIN data : get_combined_data(c).rows = <<>>
    /\ \A c \in LoadConfigs : get_raw_dataframe(ResultAggregator(c)).rows = <<>>

\* both aggregators hold a configuration with two batches of records each
TwoBatchesCombined ==
    \E c \in DOMAIN data \cap DOMAIN aggregators :
        /\ Len(data[c]) = 2
        /\ \A k \in 1..2 : data[c][k].rows # <<>>
        /\ Len(aggregators[c].raw_data) = 2
        /\ \A k \in 1..2 : aggregators[c].raw_data[k].rows # <<>>

-----------------------------------------------------------------------------
(* Properties of whole runs, under SpecRuns.                               *)

\* the result directory of c holds a .sca file that cannot be read
HasUnreadableFile(c) == DirExists(c) /\ GlobSca(c) \cap fs[lower(c)].denied # {}

\* the result directory of c holds .sca files, all of which can be read
HasReadableFilesOnly(c) == DirExists(c) /\ GlobSca(c) # {} /\ ~HasUnreadableFile(c)

\* C14: after a run of export_results over result directories of which one
\* holds an unreadable file, the run has reported an error, and every other
\* configuration whose files are readable has been loaded and its raw data
\* exported
UnreadableFileDoesNotAbortOthers ==
    (call.op = "export_results" /\ \E c \in RunConfigs : HasUnreadableFile(c)) =>
        /\ call.err # "none"
        /\ \A c \in RunConfigs :
              HasReadableFilesOnly(c) =>
                  (c \in DOMAIN aggregators /\ <<c, "_raw.csv">> \in DOMAIN csv)

Elements(s) == {s[i] : i \in DOMAIN s}

\* the frames parsed from the readable .sca files of c, in sorted order
ParsedFrames(c) == LoadedFrames(c, sorted(CHOOSE o \in Enumerations(GlobSca(c)) : TRUE))

\* C15: after a run of analyze_results, no configuration of the run whose
\* result directory holds .sca files is among the generated ones, and the
\* data analysed for it are the frames parsed from those files
RealDataNotReplacedByGenerated ==
    call.op = "analyze_results" =>
        \A c \in Elements(call.names) :
            HasReadableFilesOnly(c) =>
                /\ c \notin Elements(generated_configs)
                /\ c \in DOMAIN data
                /\ data[c] = ParsedFrames(c)

\* C16: after any sequence of runs of analyze_results and export_results,
\* no file in the CSV directory holds rows that came from the data
\* generator, and the summary table has rows only for configurations that
\* have result files
CsvFilesFromRealDataOnly ==
    /\ \A f \in DOMAIN csv : csv[f].generated = {}
    /\ \A c \in SummaryConfigurations : GlobSca(c) # {}

\* the vehicle modules that have a record in the frame d
VehiclesObserved(d) ==
    {d.rows[i].module : i \in {j \in DOMAIN d.rows : Contains(d.rows[j].module, <<"node[">>)}}

\* C17: in the summary table a run of analyze_results writes, Total_Vehicles
\* of every row is the number of vehicles that have a record in the combined
\* dataset of the row's configuration
TotalVehiclesCountsEveryVehicle ==
    (call.op = "analyze_results" /\ <<"summary_statistics.csv">> \in DOMAIN csv) =>
        LET rows == csv[<<"summary_statistics.csv">>].table.rows
        IN  \A i \in DOMAIN rows :
                rows[i]["Total_Vehicles"]
                    = Cardinality(VehiclesObserved(get_combined_data(rows[i]["Configuration"])))

-----------------------------------------------------------------------------
(* Properties of the summary tables, under SpecExport.                     *)

\* C18: in the summary table either script has written, Repetitions of every
\* row is the number of result files parsed for the row's configuration,
\* which is what loading that configuration returned
RepetitionsIsFilesParsed ==
    (call.op \in {"generate_summary_table", "export_summary_table"}
     /\ <<"summary_statistics.csv">> \in DOMAIN csv) =>
        LET rows == csv[<<"summary_statistics.csv">>].table.rows
        IN  \A i \in DOMAIN rows :
                /\ rows[i]["Repetitions"] = Cardinality(GlobSca(rows[i]["Configuration"]))
                /\ (ret.op # "none" /\ ret.config = rows[i]["Configuration"])
                       => rows[i]["Repetitions"] = ret.value

-----------------------------------------------------------------------------
(* Frame of a load, under Spec.                                            *)

\* what the dict store holds under the key b
StoredFor(store, b) == IF b \in DOMAIN store THEN <<store[b]>> ELSE <<>>

\* a step that loads configuration ret'.config leaves, for every other
\* configuration b, the batches of b and its combined dataset as they were
LoadLeavesOthers ==
    \A b \in LoadConfigs :
        b # ret'.config =>
            /\ StoredFor(data', b) = StoredFor(data, b)
            /\ CombinedData(data', b) = CombinedData(data, b)
            /\ StoredFor(aggregators', b) = StoredFor(aggregators, b)

\* C19: loading or re-loading a configuration with either loader changes
\* nothing that is stored for any other configuration, nor the combined
\* dataset of any other configuration
LoadChangesOnlyItsConfiguration == [][LoadLeavesOthers]_vars

\* a configuration has just been loaded by both loaders while batches of
\* another configuration were stored in both
LoadedBesideAnother ==
    \E a, b \in LoadConfigs :
        /\ a # b
        /\ ret.op # "none" /\ ret.config = a /\ ret.value > 0
        /\ a \in DOMAIN data /\ a \in DOMAIN aggregators
        /\ b \in DOMAIN data /\ data[b] # <<>>
        /\ b \in DOMAIN aggregators /\ aggregators[b].raw_data # <<>>

-----------------------------------------------------------------------------
(* Agreement of the two scripts, under SpecExport.                         *)

\* the summary table in the directory is the one export_summary_table writes
ExportSummaryWritten ==
    /\ <<"summary_statistics.csv">> \in DOMAIN csv
    /\ "Total_Vehicles" \notin csv[<<"summary_statistics.csv">>].table.cols

\* C20: in the summary table export_summary_table has written, PDR_% of
\* every row is the value calculate_pdr gives on the combined records of the
\* row's configuration
ExportPdrIsCoverageConditioned ==
    ExportSummaryWritten =>
        LET rows == csv[<<"summary_statistics.csv">>].table.rows
        IN  \A i \in DOMAIN rows :
                RatEq(rows[i]["PDR_%"],
                      calculate_pdr(get_raw_dataframe(aggregators[rows[i]["Configuration"]])).val)

-----------------------------------------------------------------------------
(* Coverage in the export summary, under SpecExport.                       *)

\* C21: in the summary table export_summary_table has written, Coverage_%
\* of every row is the value calculate_coverage gives on the combined
\* records of the row's configuration: the sum of the denm_in_coverage
\* values over their number, times 100, whatever the number of repetitions
ExportCoverageIsCalculateCoverage ==
    ExportSummaryWritten =>
        LET rows == csv[<<"summary_statistics.csv">>].table.rows
        IN  \A i \in DOMAIN rows :
                RatEq(rows[i]["Coverage_%"],
                      calculate_coverage(
                          get_raw_dataframe(aggregators[rows[i]["Configuration"]])).val)

-----------------------------------------------------------------------------
(* Files without any record, end to end, under SpecExport.                 *)

\* the configuration c has result files, all readable, and none of them
\* holds a line that yields a record
MalformedOnly(c) ==
    /\ HasReadableFilesOnly(c)
    /\ \A n \in GlobSca(c) : export_parse(fs[lower(c)].files[n]).rows = <<>>

\* C22: when every result file of a scanned configuration holds only
\* malformed or non-scalar lines, each file is stored as a repetition with
\* zero records, and get_aggregated_stats, export_configuration and
\* export_summary_table for that configuration return without raising
MalformedOnlyIsNeverFatal ==
    \A c \in RunConfigs :
        (MalformedOnly(c) /\ c \in DOMAIN aggregators) =>
            /\ Len(aggregators[c].raw_data) = Cardinality(GlobSca(c))
            /\ \A i \in DOMAIN aggregators[c].raw_data : aggregators[c].raw_data[i].rows = <<>>
            /\ get_aggregated_stats(aggregators[c]).err = "none"
            /\ (call.op = "export_configuration" /\ call.config = c) => call.err = "none"
            /\ call.op = "export_summary_table" => call.err = "none"

-----------------------------------------------------------------------------
(* The witness delay, under SpecWitness.                                   *)

\* the environment entry is set to the text of a number that is >= 0
IsNonNegativeNumber(env_value) ==
    /\ env_value.set
    /\ StrToFloat(env_value.value).err = "none"
    /\ RatLeq(Rat(0, 1), StrToFloat(env_value.value).val)

\* C23: whatever STELVIO_WITNESS_DELAY holds (unset, empty, not a number,
\* negative, a number), _resolve_witness_delay returns a delay >= 0: the
\* parsed value when the entry is a number >= 0, the default 3.0 otherwise;
\* and the witness story is never registered for a time before the
\* accident story's 200 s
WitnessDelayIsNonNegative ==
    /\ resolved.op # "none" =>
          /\ RatLeq(Rat(0, 1), resolved.out)
          /\ RatEq(resolved.out,
                   IF IsNonNegativeNumber(environ) THEN StrToFloat(environ.value).val
                   ELSE DEFAULT_WITNESS_DELAY)
    /\ board # <<>> => RatLeq(board[1].seconds, board[2].seconds)

-----------------------------------------------------------------------------
(* Repeated loads, under SpecReload.                                       *)

\* the number of repetition batches the loader named by op holds for c
BatchesStored(op, c) ==
    IF op = "load_configuration"
    THEN IF c \in DOMAIN data THEN Len(data[c]) ELSE 0
    ELSE IF c \in DOMAIN aggregators THEN Len(aggregators[c].raw_data) ELSE 0

\* the combined dataset the loader named by op reports for c
CombinedStored(op, c) ==
    IF op = "load_configuration" THEN get_combined_data(c)
    ELSE IF c \in DOMAIN aggregators THEN get_raw_dataframe(aggregators[c]) ELSE EmptyFrame

\* C24: after any sequence of loads, with result files added or removed in
\* between, the loader that made the most recent load holds as many batches
\* for the loaded configuration as that load returned; after a load that
\* returned 0 the combined dataset of the configuration is empty
BatchesStoredIsLastReturn ==
    (ret.op # "none" /\ ret.err = "none") =>
        /\ BatchesStored(ret.op, ret.config) = ret.value
        /\ ret.value = 0 => IsEmpty(CombinedStored(ret.op, ret.config))

\* a step in which a load of ret'.config raises because one of the result
\* files cannot be read leaves what both loaders hold for that configuration,
\* and the combined datasets they report for it, as they were
FailedLoadLeavesState ==
    (ret'.op # "none" /\ ret'.err = "OSError") =>
        /\ StoredFor(data', ret'.config) = StoredFor(data, ret'.config)
        /\ CombinedData(data', ret'.config) = CombinedData(data, ret'.config)
        /\ StoredFor(aggregators', ret'.config) = StoredFor(aggregators, ret'.config)

\* C25: when the k-th of a configuration's result files is unreadable, the
\* load leaves the loader's stored state for the configuration exactly as
\* it was before the call; no dataset of the repetitions 1..k-1 alone
\* becomes visible through get_combined_data or get_raw_dataframe
FailedLoadChangesNothing == [][FailedLoadLeavesState]_vars

-----------------------------------------------------------------------------
(* Repeated parse() calls on one instance, under SpecParse.                *)

\* a step that calls parse() again on the instance under test returns what
\* the call before it returned
ParseAgainReturnsSame ==
    (parser.calls >= 1 /\ parser'.calls = parser.calls + 1) =>
        /\ parsed'.out = parsed.out
        /\ Len(parsed'.out.val.rows) = Len(parsed.out.val.rows)

\* C26: calling parse() more than once on the same SCAParser instance over
\* an unchanged file returns the same records each time, none duplicated
RepeatedParseReturnsSameRecords == [][ParseAgainReturnsSame]_vars

-----------------------------------------------------------------------------
(* The generated datasets, under SpecGenerate.                             *)

\* the values of the records of the frame d for the module and the scalar
ValuesOf(d, module, scalar) ==
    LET records == SelectSeq(d.rows, LAMBDA r : r.module = module /\ r.scalar = scalar)
    IN  [i \in DOMAIN records |-> records[i].value]

\* the records of one generated vehicle are consistent
VehicleIsConsistent(d, module) ==
    LET received == ValuesOf(d, module, <<"denm_", "received_flag">>)
        delay    == ValuesOf(d, module, <<"denm_", "reception_delay">>)
        inside   == ValuesOf(d, module, <<"denm_", "in_coverage">>)
        outside  == ValuesOf(d, module, <<"denm_", "out_of_coverage">>)
    IN  /\ Len(received) = 1 /\ Len(delay) = 1 /\ Len(inside) = 1 /\ Len(outside) = 1
        /\ received[1] \in {0, 1000} /\ inside[1] \in {0, 1000}
        /\ inside[1] + outside[1] = 1000
        /\ received[1] = 1000 => inside[1] = 1000
        /\ delay[1] > 0 <=> received[1] = 1000

\* C27: whatever the generator draws, every generated vehicle has exactly
\* one record of each of denm_received_flag, denm_reception_delay,
\* denm_in_coverage and denm_out_of_coverage, with in + out = 1, received
\* only if in coverage, and a positive delay exactly when received; and
\* calculate_pdr of the generated dataset lies between 0 and 100
GeneratedVehiclesAreConsistent ==
    df # EmptyFrame =>
        /\ Cardinality(VehiclesObserved(df)) = NumVehicles
        /\ \A module \in VehiclesObserved(df) : VehicleIsConsistent(df, module)
        /\ result.op = "calculate_pdr" =>
              /\ result.out.err = "none"
              /\ RatLeq(Rat(0, 1), result.out.val)
              /\ RatLeq(result.out.val, Rat(100, 1))

\* calculate_pdr has been applied to a generated dataset in which one
\* vehicle received and another is out of coverage
GeneratedWithReceptionAndGap ==
    /\ result.op = "calculate_pdr"
    /\ \E m1, m2 \in VehiclesObserved(df) :
          /\ ValuesOf(df, m1, <<"denm_", "received_flag">>) = <<1000>>
          /\ ValuesOf(df, m2, <<"denm_", "out_of_coverage">>) = <<1000>>

-----------------------------------------------------------------------------
(* The control panel, under SpecGui.                                       *)

\* the workers whose thread is running
RunningWorkers == {i \in DOMAIN workers : isRunning(workers[i])}

\* a step keeps at most one worker running, and a step that opens the Busy
\* warning leaves the workers, self.worker and the buttons as they were
OneWorkerStep ==
    /\ Cardinality(RunningWorkers') <= 1
    /\ (dialog # "Busy" /\ dialog' = "Busy") =>
          /\ RunningWorkers # {}
          /\ workers' = workers /\ self_worker' = self_worker
          /\ queue' = queue /\ enabled' = enabled /\ status' = status

\* C28: at most one MakeWorker is running at any time; run_make called
\* while the current worker is still running shows the Busy warning and
\* neither creates a worker nor touches the running one
AtMostOneWorkerRuns == [][OneWorkerStep]_vars

\* the Busy warning is open over a worker that is still running
BusyWarningOverRunningWorker ==
    /\ dialog = "Busy"
    /\ Len(workers) = 1 /\ RunningWorkers = {1}

\* stop_operation has been called on the worker i while it reads the
\* output of its make process
StopRequested(i) ==
    i \in DOMAIN workers /\ workers[i].pc = "streaming" /\ ~workers[i]._running

\* the worker i has terminated its make process and emitted
\* finished(False, "Cancelled by user")
Cancelled(i) ==
    i \in DOMAIN workers /\ workers[i].message = "Cancelled by user"

\* C29: after stop_operation on a running worker, the worker eventually
\* terminates the child and emits finished(False, "Cancelled by user");
\* and every started worker eventually emits finished, exactly once
StopLeadsToCancelled ==
    \A i \in 1..MaxWorkers :
        /\ StopRequested(i) ~> Cancelled(i)
        /\ (i \in DOMAIN workers) ~> (i \in DOMAIN workers /\ workers[i].emitted = 1)
        /\ [](i \in DOMAIN workers => workers[i].emitted <= 1)

\* an operation is running for the control panel: run_make has started a
\* worker and on_finished has not yet run for it
OperationRunning == self_worker # 0 /\ ~workers[self_worker].handled

\* on_finished has run for the current worker, and nothing was started since
AfterOnFinished == self_worker # 0 /\ workers[self_worker].handled

\* C30: the stop button is enabled only while an operation is running and
\* the command buttons only while none is; after on_finished the stop
\* button is disabled and every command button is enabled
ButtonsFollowOperation ==
    /\ enabled["stop"] => OperationRunning
    /\ \A b \in CommandButtons : enabled[b] => ~OperationRunning
    /\ AfterOnFinished =>
          /\ ~enabled["stop"]
          /\ \A b \in CommandButtons : enabled[b]

=============================================================================
